---- MODULE Spec2Model ----
(***************************************************************************)
(* Step-based visualizer cores of RaphaeleL/visualizer: the sorting        *)
(* steppers (bubble, selection, merge, quick, heap) and the maze search    *)
(* steppers (BFS, DFS, Greedy, A*, Dijkstra).  Every stepper is a C        *)
(* function that advances a persistent state record by one unit of work;   *)
(* here each is an operator from a state record to the next state record   *)
(* and the returned bool, and one action per compiled-in variant applies   *)
(* it.  C arrays are functions over 0..len-1.                              *)
(***************************************************************************)
EXTENDS Integers, Sequences, FiniteSets, TLC

VARIABLES
    sortAlgo,    \* which sort header sort.h includes (SORT_ALGO_NAME)
    sortState,   \* SortState state of sort()
    sortRet,     \* what the last sort_step call returned, FALSE before the first
    input,       \* the values sort_state_reset_common drew (history)
    calls,       \* sort_step calls made while finished was false (history)
    twin,        \* the same run made from a freshly constructed SortState
    algo,        \* which search header maze.h includes (ALGO_NAME)
    maze,        \* int **maze, indexed <<x, y>>
    dirs,        \* the global dirs[4][2]
    state,       \* SearchState state of maze()
    stepRet,     \* what the last step call returned, FALSE before the first
    found,       \* bool found of maze()
    genN,        \* the n GenerateMaze runs with, 0 when it does not run
    genStack,    \* the active GenerateMaze frames, innermost last
    heapImpl,    \* which set of min-heap helpers is exercised
    heapState,   \* the SearchState fields the min-heap helpers use
    pc,          \* where maze() is: in ResetRun or in its loop
    run,         \* startX, startY, goalX, goalY, pathLen, stepCount of maze()
    stepCalls,   \* step calls made since ResetRun last returned (history)
    resetFrom    \* what the search was at when ResetRun was last called (history)

vars ==
    <<sortAlgo, sortState, sortRet, input, calls, twin, algo, maze, dirs, state,
      stepRet, found, genN, genStack, heapImpl, heapState, pc, run, stepCalls,
      resetFrom>>

sortVars == <<sortAlgo, sortState, sortRet, input, calls, twin>>
searchVars == <<algo, maze, dirs, state, stepRet, found>>
genVars == <<genN, genStack>>
heapVars == <<heapImpl, heapState>>
runVars == <<pc, run, stepCalls, resetFrom>>

----------------------------------------------------------------------------
(* Bounds *)

\* longest array the sort model draws (the program uses N = 120)
MaxLen == 4
\* array values are drawn from 1..MaxVal (the program draws 10..429)
MaxVal == 3
\* qol_timer_elapsed readings are drawn from 0..MaxTime
MaxTime == 1

----------------------------------------------------------------------------
(* Sorting: state and reset *)

\* what malloc'ed, never written memory may hold
Garbage == {0, MaxVal + 1}

\* tmp = v[a]; v[a] = v[b]; v[b] = tmp
SwapMut(f, a, b) == [f EXCEPT ![a] = f[b]]

Swap(f, a, b) == [f EXCEPT ![a] = f[b], ![b] = f[a]]

\* SortState state = {0}, with the buffers sort_state_reset_common allocates
\* on its first call; g is what the fresh aux/stackL/stackR memory holds
SortStateZero(n, g) ==
    [ values |-> [idx \in 0..(n - 1) |-> g],
      aux |-> [idx \in 0..(n - 1) |-> g],
      stackL |-> [idx \in 0..(n - 1) |-> g],
      stackR |-> [idx \in 0..(n - 1) |-> g],
      n |-> 0, i |-> 0, j |-> 0, k |-> 0, minIdx |-> 0,
      comparisons |-> 0, swaps |-> 0,
      finished |-> FALSE, swappedLast |-> FALSE,
      highlightA |-> 0, highlightB |-> 0, timeDone |-> 0,
      mergeWidth |-> 0, mergeLeft |-> 0, mergeMid |-> 0, mergeRight |-> 0,
      mergeK |-> 0, mergeCopying |-> FALSE,
      quickLeft |-> 0, quickRight |-> 0, quickPivot |-> 0, quickI |-> 0,
      quickJ |-> 0, quickPartitioning |-> FALSE, stackTop |-> 0,
      heapSize |-> 0, heapBuildIdx |-> 0, heapPhase |-> 0 ]

\* n / 2 of C for n >= 0
HalfOf(n) == n \div 2

\* sort_state_reset_common(s, n); vals are the n values rand() yields
sort_state_reset_commonMut(s, n, vals) ==
    [s EXCEPT !.n = n, !.k = 0, !.minIdx = 0,
              !.comparisons = 0, !.swaps = 0,
              !.finished = FALSE, !.swappedLast = FALSE,
              !.highlightA = -1, !.highlightB = -1, !.timeDone = 0,
              !.mergeWidth = 0, !.mergeLeft = 0, !.mergeMid = 0,
              !.mergeRight = 0, !.mergeK = 0, !.mergeCopying = FALSE,
              !.quickPartitioning = FALSE, !.stackTop = -1,
              !.heapPhase = 0, !.heapBuildIdx = HalfOf(n) - 1, !.heapSize = n,
              !.values = vals]

sort_state_reset_common(s, n, vals) ==
    [s EXCEPT !.n = n, !.i = 0, !.j = 0, !.k = 0, !.minIdx = 0,
              !.comparisons = 0, !.swaps = 0,
              !.finished = FALSE, !.swappedLast = FALSE,
              !.highlightA = -1, !.highlightB = -1, !.timeDone = 0,
              !.mergeWidth = 0, !.mergeLeft = 0, !.mergeMid = 0,
              !.mergeRight = 0, !.mergeK = 0, !.mergeCopying = FALSE,
              !.quickPartitioning = FALSE, !.stackTop = -1,
              !.heapPhase = 0, !.heapBuildIdx = HalfOf(n) - 1, !.heapSize = n,
              !.values = vals]

\* the common ending of every sort_step: finished = true, timeDone = elapsed
FinishMut(s, t) ==
    [st |-> [s EXCEPT !.finished = TRUE, !.timeDone = t, !.comparisons = @ + 1],
     ret |-> TRUE]

Finish(s, t) == [st |-> [s EXCEPT !.finished = TRUE, !.timeDone = t], ret |-> TRUE]

\* s->n <= 1 in the first test of every sort_step: nothing to sort
SortTrivialMut(s) == s.n <= 0

SortTrivial(s) == s.n <= 1

----------------------------------------------------------------------------
(* Bubble sort *)

bubble_sort_init(s) == s

\* values[j] > values[j + 1]: the pair is out of order
BubbleOutOfOrderMut(a, b) == a < b

BubbleOutOfOrder(a, b) == a > b

\* int limit = s->n - 1 - s->i: the pass boundary shrinks with every pass
BubbleLimitMut(s) == s.n - 1

BubbleLimit(s) == s.n - 1 - s.i

\* if (s->i >= s->n - 1) after the pass: the call that ends the last pass
\* finishes
BubblePassesDoneMut(s) == FALSE

BubblePassesDone(s) == s.i >= s.n - 1

bubble_sort_step(s, t) ==
    IF s.finished \/ SortTrivial(s) THEN Finish(s, t)
    ELSE LET limit == BubbleLimit(s) IN
         IF limit <= 0 THEN Finish(s, t)
         ELSE LET sw == BubbleOutOfOrder(s.values[s.j], s.values[s.j + 1])
                  s1 == [s EXCEPT !.highlightA = s.j, !.highlightB = s.j + 1,
                                  !.comparisons = @ + 1,
                                  !.swappedLast = sw,
                                  !.values = IF sw THEN Swap(@, s.j, s.j + 1) ELSE @,
                                  !.swaps = IF sw THEN @ + 1 ELSE @,
                                  !.j = @ + 1]
              IN IF s1.j >= limit
                 THEN LET s2 == [s1 EXCEPT !.j = 0, !.i = @ + 1]
                      IN IF BubblePassesDone(s2) THEN Finish(s2, t)
                         ELSE [st |-> s2, ret |-> s2.finished]
                 ELSE [st |-> s1, ret |-> s1.finished]

----------------------------------------------------------------------------
(* Selection sort *)

selection_sort_init(s) == [s EXCEPT !.i = 0, !.j = 1, !.minIdx = 0]

\* if (s->j >= s->n): j has reached the end of the outer pass
SelectionPassEndMut(s) == s.j >= s.n - 1

SelectionPassEnd(s) == s.j >= s.n

selection_sort_step(s, t) ==
    IF s.finished \/ SortTrivial(s) THEN Finish(s, t)
    ELSE IF s.i >= s.n - 1 THEN Finish(s, t)
    ELSE LET s1 == [s EXCEPT !.highlightA = s.i, !.highlightB = s.j,
                             !.comparisons = @ + 1,
                             !.minIdx = IF s.values[s.j] < s.values[s.minIdx]
                                        THEN s.j ELSE @,
                             !.j = @ + 1]
         IN IF SelectionPassEnd(s1)
            THEN LET sw == s1.minIdx # s1.i
                     s2 == [s1 EXCEPT !.values = IF sw THEN Swap(@, s1.i, s1.minIdx) ELSE @,
                                      !.swaps = IF sw THEN @ + 1 ELSE @,
                                      !.i = s1.i + 1,
                                      !.minIdx = s1.i + 1,
                                      !.j = s1.i + 2]
                 IN [st |-> s2, ret |-> s2.finished]
            ELSE [st |-> s1, ret |-> s1.finished]

----------------------------------------------------------------------------
(* Bottom-up merge sort *)

merge_sort_init(s) ==
    [s EXCEPT !.mergeWidth = 1, !.mergeLeft = 0, !.mergeMid = 0,
              !.mergeRight = 0, !.mergeK = 0, !.mergeCopying = FALSE]

\* if (mid > n) mid = n; if (right > n) right = n;
MergeClamp(x, n) == IF x > n THEN n ELSE x

\* values[i] <= values[j]: take from the left run
MergeTakeLeftMut(a, b) == a >= b

MergeTakeLeft(a, b) == a <= b

\* the merging branch (mergeCopying false): one element into aux
MergeOne(s, left, mid, right) ==
    LET s1 == IF s.i < mid /\ s.j < right
              THEN LET sh == [s EXCEPT !.highlightA = s.i, !.highlightB = s.j,
                                       !.comparisons = @ + 1]
                   IN IF MergeTakeLeft(s.values[s.i], s.values[s.j])
                      THEN [sh EXCEPT !.aux[s.mergeK] = s.values[s.i],
                                      !.mergeK = @ + 1, !.i = @ + 1]
                      ELSE [sh EXCEPT !.aux[s.mergeK] = s.values[s.j],
                                      !.mergeK = @ + 1, !.j = @ + 1]
              ELSE IF s.i < mid
              THEN [s EXCEPT !.aux[s.mergeK] = s.values[s.i],
                             !.mergeK = @ + 1, !.i = @ + 1]
              ELSE IF s.j < right
              THEN [s EXCEPT !.aux[s.mergeK] = s.values[s.j],
                             !.mergeK = @ + 1, !.j = @ + 1]
              ELSE s
    IN IF s1.i >= mid /\ s1.j >= right
       THEN [s1 EXCEPT !.mergeCopying = TRUE, !.mergeK = left]
       ELSE s1

\* the copying branch (mergeCopying true): one element back into values
MergeCopyOneMut(s, right) ==
    LET s1 == [s EXCEPT !.highlightA = s.mergeK, !.mergeK = @ + 1]
    IN IF s1.mergeK >= right
       THEN [s1 EXCEPT !.mergeLeft = right, !.mergeK = 0, !.mergeCopying = FALSE]
       ELSE s1

MergeCopyOne(s, right) ==
    LET s1 == [s EXCEPT !.highlightA = s.mergeK,
                        !.values[s.mergeK] = s.aux[s.mergeK],
                        !.mergeK = @ + 1]
    IN IF s1.mergeK >= right
       THEN [s1 EXCEPT !.mergeLeft = right, !.mergeK = 0, !.mergeCopying = FALSE]
       ELSE s1

merge_sort_step(s, t) ==
    IF s.finished \/ SortTrivial(s) THEN Finish(s, t)
    ELSE LET n == s.n
             s1 == IF s.mergeLeft >= n
                   THEN [s EXCEPT !.mergeWidth = @ * 2, !.mergeLeft = 0]
                   ELSE s
         IN IF s1.mergeWidth >= n THEN Finish(s1, t)
            ELSE LET left == s1.mergeLeft
                     mid == MergeClamp(left + s1.mergeWidth, n)
                     right == MergeClamp(left + 2 * s1.mergeWidth, n)
                     s2 == IF ~s1.mergeCopying /\ s1.mergeK = 0
                           THEN [s1 EXCEPT !.i = left, !.j = mid, !.mergeK = left]
                           ELSE s1
                     s3 == IF ~s2.mergeCopying
                           THEN MergeOne(s2, left, mid, right)
                           ELSE MergeCopyOne(s2, right)
                 IN [st |-> s3, ret |-> s3.finished]

----------------------------------------------------------------------------
(* Quick sort: Lomuto partition, explicit stack of ranges *)

\* sort_init that starts from stackTop = 0 instead of -1 before its push
quick_sort_initMut(s) ==
    [s EXCEPT !.stackTop = 1, !.stackL[1] = 0, !.stackR[1] = s.n - 1,
              !.quickPartitioning = FALSE]

quick_sort_init(s) ==
    [s EXCEPT !.stackTop = 0, !.stackL[0] = 0, !.stackR[0] = s.n - 1,
              !.quickPartitioning = FALSE]

\* pop the next range and start partitioning it
QuickPop(s) ==
    [s EXCEPT !.quickLeft = s.stackL[s.stackTop],
              !.quickRight = s.stackR[s.stackTop],
              !.stackTop = @ - 1,
              !.quickPivot = s.values[s.stackR[s.stackTop]],
              !.quickI = s.stackL[s.stackTop] - 1,
              !.quickJ = s.stackL[s.stackTop],
              !.quickPartitioning = TRUE]

\* values[quickJ] <= quickPivot: the element belongs to the left part
QuickBelongsLeftMut(a, pivot) == a >= pivot

QuickBelongsLeft(a, pivot) == a <= pivot

\* one comparison of the partition loop
QuickCompare(s) ==
    LET sh == [s EXCEPT !.highlightA = s.quickJ, !.highlightB = s.quickRight,
                        !.comparisons = @ + 1]
        s1 == IF QuickBelongsLeft(s.values[s.quickJ], s.quickPivot)
              THEN LET qi == s.quickI + 1
                   IN IF qi # s.quickJ
                      THEN [sh EXCEPT !.quickI = qi,
                                      !.values = Swap(@, qi, s.quickJ),
                                      !.swaps = @ + 1]
                      ELSE [sh EXCEPT !.quickI = qi]
              ELSE sh
    IN [s1 EXCEPT !.quickJ = @ + 1]

\* place the pivot and push the two subranges
QuickPlacePivot(s) ==
    LET pivotPos == s.quickI + 1
        s1 == IF pivotPos # s.quickRight
              THEN [s EXCEPT !.values = Swap(@, pivotPos, s.quickRight),
                             !.swaps = @ + 1]
              ELSE s
        leftLen == pivotPos - 1 - s.quickLeft
        rightLen == s.quickRight - (pivotPos + 1)
        s2 == IF leftLen > 0
              THEN [s1 EXCEPT !.stackTop = @ + 1,
                              !.stackL[s1.stackTop + 1] = s.quickLeft,
                              !.stackR[s1.stackTop + 1] = pivotPos - 1]
              ELSE s1
        s3 == IF rightLen > 0
              THEN [s2 EXCEPT !.stackTop = @ + 1,
                              !.stackL[s2.stackTop + 1] = pivotPos + 1,
                              !.stackR[s2.stackTop + 1] = s.quickRight]
              ELSE s2
    IN [s3 EXCEPT !.quickPartitioning = FALSE]

quick_sort_step(s, t) ==
    IF s.finished \/ SortTrivial(s) THEN Finish(s, t)
    ELSE IF ~s.quickPartitioning /\ s.stackTop < 0 THEN Finish(s, t)
    ELSE LET s1 == IF ~s.quickPartitioning THEN QuickPop(s) ELSE s
         IN IF s1.quickJ < s1.quickRight
            THEN [st |-> QuickCompare(s1), ret |-> FALSE]
            ELSE [st |-> QuickPlacePivot(s1), ret |-> FALSE]

----------------------------------------------------------------------------
(* Heap sort *)

heap_sort_init(s) ==
    [s EXCEPT !.heapSize = s.n, !.heapBuildIdx = HalfOf(s.n) - 1, !.heapPhase = 0]

\* values[child] > values[largest]: the child becomes the largest
HeapChildLargerMut(a, b) == a < b

HeapChildLarger(a, b) == a > b

RECURSIVE heap_sift_down(_, _)
heap_sift_down(s, idx) ==
    LET left == 2 * idx + 1
        right == left + 1
        l1 == IF left < s.heapSize /\ HeapChildLarger(s.values[left], s.values[idx])
              THEN left ELSE idx
        largest == IF right < s.heapSize /\ HeapChildLarger(s.values[right], s.values[l1])
                   THEN right ELSE l1
        cmp == (IF left < s.heapSize THEN 1 ELSE 0) + (IF right < s.heapSize THEN 1 ELSE 0)
        sc == [s EXCEPT !.comparisons = @ + cmp]
    IN IF largest # idx
       THEN heap_sift_down([sc EXCEPT !.values = Swap(@, idx, largest),
                                      !.swaps = @ + 1], largest)
       ELSE sc

\* phase 1: swap the root with the tail, shrink, sift the root down
HeapExtract(s) ==
    heap_sift_down([s EXCEPT !.highlightA = 0, !.highlightB = s.heapSize - 1,
                             !.values = Swap(@, 0, s.heapSize - 1),
                             !.swaps = @ + 1,
                             !.heapSize = @ - 1], 0)

heap_sort_step(s, t) ==
    IF s.finished \/ SortTrivial(s) THEN Finish(s, t)
    ELSE IF s.heapPhase = 0 /\ s.heapBuildIdx >= 0
    THEN [st |-> [heap_sift_down([s EXCEPT !.highlightA = s.heapBuildIdx],
                                 s.heapBuildIdx)
                    EXCEPT !.heapBuildIdx = @ - 1],
          ret |-> FALSE]
    ELSE LET s1 == IF s.heapPhase = 0 THEN [s EXCEPT !.heapPhase = 1] ELSE s
         IN IF s1.heapSize <= 1 THEN Finish(s1, t)
            ELSE [st |-> HeapExtract(s1), ret |-> FALSE]

----------------------------------------------------------------------------
(* The sort driver: sort() resets, initialises and steps *)

SortAlgos == {"bubble", "selection", "merge", "quick", "heap"}

sort_init(a, s) ==
    CASE a = "bubble" -> bubble_sort_init(s)
      [] a = "selection" -> selection_sort_init(s)
      [] a = "merge" -> merge_sort_init(s)
      [] a = "quick" -> quick_sort_init(s)
      [] a = "heap" -> heap_sort_init(s)

\* the state sort() holds when it enters its loop
SortStart(a, n, vals, g) ==
    sort_init(a, sort_state_reset_common(SortStateZero(n, g), n, vals))

\* qol_timer_elapsed never runs backwards
TimerReadings(s) == {t \in 0..MaxTime : t >= s.timeDone}

----------------------------------------------------------------------------
(* Sort actions: one sort_step call of the compiled-in variant *)

\* static int dirs[4][2] = {{0,-1},{1,0},{0,1},{-1,0}}
InitialDirs ==
    [i \in 0..3 |->
        CASE i = 0 -> [c \in 0..1 |-> IF c = 0 THEN 0 ELSE -1]
          [] i = 1 -> [c \in 0..1 |-> IF c = 0 THEN 1 ELSE 0]
          [] i = 2 -> [c \in 0..1 |-> IF c = 0 THEN 0 ELSE 1]
          [] i = 3 -> [c \in 0..1 |-> IF c = 0 THEN -1 ELSE 0]]

\* GenerateMaze is not running
GenIdle ==
    /\ genN = 0
    /\ genStack = <<>>

\* the min-heap helpers are not exercised on their own
HeapIdle ==
    /\ heapImpl = "none"
    /\ heapState = <<>>

\* maze() is not in ResetRun or its loop, or the model does not follow it
RunIdle ==
    /\ pc = "none"
    /\ run = <<>>
    /\ stepCalls = 0
    /\ resetFrom = "none"

\* the maze side before maze() has run
SearchIdle ==
    /\ algo = "none"
    /\ maze = <<>>
    /\ dirs = InitialDirs
    /\ state = <<>>
    /\ stepRet = FALSE
    /\ found = FALSE

\* sort() up to its loop, for the variants in A
InitSortOf(A) ==
    /\ sortAlgo \in A
    /\ \E n \in 0..MaxLen, g \in Garbage :
          \* quick's sort_init writes stackL[0], so its buffers need n >= 1
          /\ sortAlgo = "quick" => n >= 1
          /\ \E vals \in [0..(n - 1) -> 1..MaxVal] :
                /\ input = vals
                /\ sortState = SortStart(sortAlgo, n, vals, g)
    /\ sortRet = FALSE
    /\ calls = 0
    /\ twin = <<>>
    /\ SearchIdle
    /\ GenIdle
    /\ HeapIdle
    /\ RunIdle

InitSort == InitSortOf(SortAlgos)

BubbleStep ==
    /\ sortAlgo = "bubble"
    /\ \E t \in TimerReadings(sortState) :
          /\ sortState' = bubble_sort_step(sortState, t).st
          /\ sortRet' = bubble_sort_step(sortState, t).ret
    /\ calls' = IF sortState.finished THEN calls ELSE calls + 1
    /\ UNCHANGED <<sortAlgo, input, twin, searchVars, genVars, heapVars, runVars>>

SelectionStep ==
    /\ sortAlgo = "selection"
    /\ \E t \in TimerReadings(sortState) :
          /\ sortState' = selection_sort_step(sortState, t).st
          /\ sortRet' = selection_sort_step(sortState, t).ret
    /\ calls' = IF sortState.finished THEN calls ELSE calls + 1
    /\ UNCHANGED <<sortAlgo, input, twin, searchVars, genVars, heapVars, runVars>>

MergeStep ==
    /\ sortAlgo = "merge"
    /\ \E t \in TimerReadings(sortState) :
          /\ sortState' = merge_sort_step(sortState, t).st
          /\ sortRet' = merge_sort_step(sortState, t).ret
    /\ calls' = IF sortState.finished THEN calls ELSE calls + 1
    /\ UNCHANGED <<sortAlgo, input, twin, searchVars, genVars, heapVars, runVars>>

QuickStep ==
    /\ sortAlgo = "quick"
    /\ \E t \in TimerReadings(sortState) :
          /\ sortState' = quick_sort_step(sortState, t).st
          /\ sortRet' = quick_sort_step(sortState, t).ret
    /\ calls' = IF sortState.finished THEN calls ELSE calls + 1
    /\ UNCHANGED <<sortAlgo, input, twin, searchVars, genVars, heapVars, runVars>>

HeapStep ==
    /\ sortAlgo = "heap"
    /\ \E t \in TimerReadings(sortState) :
          /\ sortState' = heap_sort_step(sortState, t).st
          /\ sortRet' = heap_sort_step(sortState, t).ret
    /\ calls' = IF sortState.finished THEN calls ELSE calls + 1
    /\ UNCHANGED <<sortAlgo, input, twin, searchVars, genVars, heapVars, runVars>>

NextSort == BubbleStep \/ SelectionStep \/ MergeStep \/ QuickStep \/ HeapStep

\* sort.h with any one of the five headers included
SortSpec == InitSort /\ [][NextSort]_vars

\* longest ordered array, and largest value in one, that bubble sort is run on
MaxOrdered == 5

\* sort() with bubble.h included, up to its loop, the values drawn being in
\* non-increasing or in non-decreasing order
InitBubbleOrdered ==
    /\ sortAlgo = "bubble"
    /\ \E n \in 0..MaxOrdered, g \in Garbage :
          \E vals \in [0..(n - 1) -> 1..MaxOrdered] :
                /\ \/ \A a, b \in 0..(n - 1) : a < b => vals[a] >= vals[b]
                   \/ \A a, b \in 0..(n - 1) : a < b => vals[a] <= vals[b]
                /\ input = vals
                /\ sortState = SortStart(sortAlgo, n, vals, g)
    /\ sortRet = FALSE
    /\ calls = 0
    /\ twin = <<>>
    /\ SearchIdle
    /\ GenIdle
    /\ HeapIdle
    /\ RunIdle

BubbleOrderedSpec == InitBubbleOrdered /\ [][BubbleStep]_vars

\* sort()'s loop calls sort_step on every frame while the run is unfinished,
\* which is the fairness of the specifications below; each is sort.h with
\* the named header(s) included
NextBubbleSelection == BubbleStep \/ SelectionStep

BubbleSelectionLiveSpec ==
    /\ InitSortOf({"bubble", "selection"})
    /\ [][NextBubbleSelection]_vars
    /\ WF_vars(NextBubbleSelection)

MergeLiveSpec == InitSortOf({"merge"}) /\ [][MergeStep]_vars /\ WF_vars(MergeStep)

QuickLiveSpec == InitSortOf({"quick"}) /\ [][QuickStep]_vars /\ WF_vars(QuickStep)

HeapLiveSpec == InitSortOf({"heap"}) /\ [][HeapStep]_vars /\ WF_vars(HeapStep)

----------------------------------------------------------------------------
(* Sorting claims *)

NonDecreasing(v, n) == \A a, b \in 0..(n - 1) : a < b => v[a] <= v[b]

Occurrences(v, x) == Cardinality({a \in DOMAIN v : v[a] = x})

IsPermutation(v, w) ==
    /\ DOMAIN v = DOMAIN w
    /\ \A x \in {v[a] : a \in DOMAIN v} \cup {w[a] : a \in DOMAIN w} :
          Occurrences(v, x) = Occurrences(w, x)

SortedResult ==
    /\ NonDecreasing(sortState.values, sortState.n)
    /\ IsPermutation(sortState.values, input)

\* C1: bubble sort and selection sort, stepped from the reset state, reach
\* finished after finitely many calls for every input of length n >= 0, and
\* values is then non-decreasing and a permutation of the input.
C1_BubbleSelectionSorts ==
    (sortAlgo \in {"bubble", "selection"}) =>
        /\ <>(sortState.finished /\ sortRet = TRUE)
        /\ [](sortState.finished => SortedResult)

C1_Witness ==
    /\ sortAlgo \in {"bubble", "selection"}
    /\ sortState.finished
    /\ sortState.n >= 3
    /\ sortState.swaps >= 2
    /\ ~NonDecreasing(input, sortState.n)

\* C2: bottom-up merge sort reaches finished after finitely many calls for
\* every input length (also lengths that are no power of two, where mid and
\* right are clamped to n), and values is then non-decreasing and a
\* permutation of the input.
C2_MergeSorts ==
    (sortAlgo = "merge") =>
        /\ <>(sortState.finished /\ sortRet = TRUE)
        /\ [](sortState.finished => SortedResult)

C2_Witness ==
    /\ sortAlgo = "merge"
    /\ sortState.finished
    /\ sortState.n = 3
    /\ sortState.mergeWidth = 4
    /\ ~NonDecreasing(input, sortState.n)

\* C3: quick sort reaches finished after finitely many calls for every input
\* of length n >= 1, duplicates included, and values is then non-decreasing
\* and a permutation of the input.
C3_QuickSorts ==
    (sortAlgo = "quick") =>
        /\ <>(sortState.finished /\ sortRet = TRUE)
        /\ [](sortState.finished => SortedResult)

C3_Witness ==
    /\ sortAlgo = "quick"
    /\ sortState.finished
    /\ sortState.n >= 3
    /\ \E a, b \in DOMAIN input : a # b /\ input[a] = input[b]
    /\ ~NonDecreasing(input, sortState.n)

\* C4: heap sort (build phase from heapBuildIdx = n/2 - 1 down to 0, then the
\* extract phase) reaches finished after finitely many calls for every input
\* length, and values is then non-decreasing and a permutation of the input.
C4_HeapSorts ==
    (sortAlgo = "heap") =>
        /\ <>(sortState.finished /\ sortRet = TRUE)
        /\ [](sortState.finished => SortedResult)

C4_Witness ==
    /\ sortAlgo = "heap"
    /\ sortState.finished
    /\ sortState.n >= 3
    /\ sortState.heapPhase = 1
    /\ sortState.heapBuildIdx = -1
    /\ ~NonDecreasing(input, sortState.n)

\* the fields of SortState other than the timeDone stamp
WithoutStamp(s) == [s EXCEPT !.timeDone = 0]

\* C5: once finished is true every further sort_step returns true and leaves
\* values, comparisons, swaps and every cursor and phase field unchanged; the
\* two counters never decrease.
C5_FinishedIsFrozen ==
    [][ /\ sortState'.comparisons >= sortState.comparisons
        /\ sortState'.swaps >= sortState.swaps
        /\ sortState.finished =>
              /\ sortRet' = TRUE
              /\ WithoutStamp(sortState') = WithoutStamp(sortState) ]_vars

\* a second finishing call has been made on a run that did real work
C5_Witness ==
    /\ sortState.finished
    /\ sortState.timeDone >= 1
    /\ sortState.comparisons >= 3
    /\ sortState.swaps >= 1

----------------------------------------------------------------------------
(* Maze search: constants, state and path reconstruction *)

WALL == 1
PATH == 0
INF == 1000000

Abs(x) == IF x < 0 THEN -x ELSE x

Cell(x, y) == [x |-> x, y |-> y]

\* search_init(s, N, maze, sx, sy, gx, gy); the maze pointer is the variable maze
search_init(N, sx, sy, gx, gy) ==
    [ N |-> N, startX |-> sx, startY |-> sy, goalX |-> gx, goalY |-> gy,
      max |-> N * N,
      visited |-> [i \in 0..(N * N - 1) |-> IF i = sy * N + sx THEN 1 ELSE 0],
      parent |-> [i \in 0..(N * N - 1) |-> -1],
      dist |-> [i \in 0..(N * N - 1) |-> IF i = sy * N + sx THEN 0 ELSE INF],
      processed |-> [i \in 0..(N * N - 1) |-> 0],
      fscore |-> [i \in 0..(N * N - 1) |-> INF],
      heap |-> [i \in 0..(N * N - 1) |-> 0],
      heap_pos |-> [i \in 0..(N * N - 1) |-> -1],
      heap_len |-> 0,
      queue |-> <<Cell(sx, sy)>>,
      head |-> 0,
      path |-> <<>> ]

\* nx, ny inside the grid and maze[ny][nx] == PATH
IsOpenMut(s, nx, ny) == nx >= 0 /\ nx < s.N /\ ny >= 0 /\ ny < s.N

IsOpen(s, nx, ny) ==
    /\ nx >= 0 /\ nx < s.N /\ ny >= 0 /\ ny < s.N
    /\ maze[ny][nx] = PATH

\* the while loop of build_path: goal first, the start left out
PathWalkMut(s, cx, cy, acc) ==
    IF cx = s.startX /\ cy = s.startY THEN acc ELSE Append(acc, Cell(cx, cy))

RECURSIVE PathWalk(_, _, _, _)
PathWalk(s, cx, cy, acc) ==
    IF cx = s.startX /\ cy = s.startY THEN acc
    ELSE LET p == s.parent[cy * s.N + cx]
         IN IF p < 0 THEN Append(acc, Cell(cx, cy))
            ELSE PathWalk(s, p % s.N, p \div s.N, Append(acc, Cell(cx, cy)))

\* the in-place reversal loop of build_path
ReversePathMut(q) == q

ReversePath(q) == [i \in 1..Len(q) |-> q[Len(q) + 1 - i]]

build_path(s) ==
    [s EXCEPT !.path =
        ReversePath(Append(PathWalk(s, s.goalX, s.goalY, <<>>),
                           Cell(s.startX, s.startY)))]

\* the cell the i-th direction leads to from (x, y)
NeighbourX(x, i) == x + dirs[i][0]
NeighbourY(y, i) == y + dirs[i][1]

----------------------------------------------------------------------------
(* BFS and DFS *)

\* body of the neighbour loop of BFS and DFS for direction i
QueueVisitMut(s, x, y, i) ==
    LET nx == NeighbourX(x, i)
        ny == NeighbourY(y, i)
        idx == ny * s.N + nx
    IN IF IsOpen(s, nx, ny) /\ s.visited[idx] = 0
       THEN [s EXCEPT !.parent[idx] = y * s.N + x,
                      !.queue = Append(@, Cell(nx, ny))]
       ELSE s

QueueVisit(s, x, y, i) ==
    LET nx == NeighbourX(x, i)
        ny == NeighbourY(y, i)
        idx == ny * s.N + nx
    IN IF IsOpen(s, nx, ny) /\ s.visited[idx] = 0
       THEN [s EXCEPT !.visited[idx] = 1,
                      !.parent[idx] = y * s.N + x,
                      !.queue = Append(@, Cell(nx, ny))]
       ELSE s

\* for (int i = 0; i < 4; i++): the four directions in the order of dirs
QueueExpandMut(s, x, y) ==
    QueueVisit(QueueVisit(QueueVisit(s, x, y, 0), x, y, 1), x, y, 2)

QueueExpand(s, x, y) ==
    QueueVisit(QueueVisit(QueueVisit(QueueVisit(s, x, y, 0), x, y, 1), x, y, 2), x, y, 3)

\* Cell c = s->queue.data[s->head++]
BfsTakeMut(s) ==
    [c |-> s.queue[Len(s.queue)],
     st |-> [s EXCEPT !.queue = SubSeq(@, 1, Len(@) - 1)]]

BfsTake(s) == [c |-> s.queue[s.head + 1], st |-> [s EXCEPT !.head = @ + 1]]

\* return false with nothing touched: the frontier holds no cell
StepIdleMut(s) == [st |-> s, ret |-> TRUE]

StepIdle(s) == [st |-> s, ret |-> FALSE]

bfs_step(s) ==
    IF s.head >= Len(s.queue) THEN StepIdle(s)
    ELSE LET c == BfsTake(s).c
             s1 == BfsTake(s).st
         IN IF c.x = s.goalX /\ c.y = s.goalY
            THEN [st |-> build_path(s1), ret |-> TRUE]
            ELSE [st |-> QueueExpand(s1, c.x, c.y), ret |-> FALSE]

dfs_step(s) ==
    IF Len(s.queue) = 0 THEN StepIdle(s)
    ELSE LET c == s.queue[Len(s.queue)]
             s1 == [s EXCEPT !.queue = SubSeq(@, 1, Len(@) - 1)]
         IN IF c.x = s.goalX /\ c.y = s.goalY
            THEN [st |-> build_path(s1), ret |-> TRUE]
            ELSE [st |-> QueueExpand(s1, c.x, c.y), ret |-> FALSE]

----------------------------------------------------------------------------
(* Greedy, A* and array-scan Dijkstra: a scan picks the next cell *)

\* abs(cx - goalX) + abs(cy - goalY) for linear index i
Manhattan(s, i) == Abs((i % s.N) - s.goalX) + Abs((i \div s.N) - s.goalY)

\* the selection loop: the first index among the visited, unprocessed cells
\* whose score is below every earlier one's and below INF
RECURSIVE ScanBest(_, _, _, _, _)
ScanBest(s, score, i, bestIdx, bestScore) ==
    IF i >= s.max THEN bestIdx
    ELSE IF s.visited[i] # 0 /\ s.processed[i] = 0 /\ score[i] < bestScore
         THEN ScanBest(s, score, i + 1, i, score[i])
         ELSE ScanBest(s, score, i + 1, bestIdx, bestScore)

GreedyScore(s) == [i \in 0..(s.max - 1) |-> Manhattan(s, i)]

AStarScoreMut(s) == [i \in 0..(s.max - 1) |-> 0 - (s.dist[i] + Manhattan(s, i))]

AStarScore(s) == [i \in 0..(s.max - 1) |-> s.dist[i] + Manhattan(s, i)]

\* the scan of array-scan Dijkstra compares s->dist[i]
DijkstraScoreMut(s) == [i \in 0..(s.max - 1) |-> 0 - s.dist[i]]

DijkstraScore(s) == [i \in 0..(s.max - 1) |-> s.dist[i]]

\* body of the neighbour loop of Greedy for direction i
GreedyVisit(s, x, y, i) ==
    LET nx == NeighbourX(x, i)
        ny == NeighbourY(y, i)
        idx == ny * s.N + nx
    IN IF IsOpen(s, nx, ny) /\ s.visited[idx] = 0
       THEN [s EXCEPT !.visited[idx] = 1, !.parent[idx] = y * s.N + x]
       ELSE s

GreedyExpand(s, x, y) ==
    GreedyVisit(GreedyVisit(GreedyVisit(GreedyVisit(s, x, y, 0), x, y, 1), x, y, 2), x, y, 3)

\* body of the neighbour loop of A* and array-scan Dijkstra for direction i
RelaxVisit(s, x, y, i) ==
    LET nx == NeighbourX(x, i)
        ny == NeighbourY(y, i)
        idx == ny * s.N + nx
        nd == s.dist[y * s.N + x] + 1
    IN IF IsOpen(s, nx, ny) /\ nd < s.dist[idx]
       THEN [s EXCEPT !.dist[idx] = nd,
                      !.parent[idx] = y * s.N + x,
                      !.visited[idx] = 1]
       ELSE s

RelaxExpand(s, x, y) ==
    RelaxVisit(RelaxVisit(RelaxVisit(RelaxVisit(s, x, y, 0), x, y, 1), x, y, 2), x, y, 3)

\* what the three scanning steps do once bestIdx is chosen
ScanStepMark(s, bestIdx) == [s EXCEPT !.processed[bestIdx] = 1]

greedy_step(s) ==
    LET bestIdx == ScanBest(s, GreedyScore(s), 0, -1, INF)
    IN IF bestIdx = -1 THEN StepIdle(s)
       ELSE LET x == bestIdx % s.N
                y == bestIdx \div s.N
                s1 == ScanStepMark(s, bestIdx)
            IN IF x = s.goalX /\ y = s.goalY
               THEN [st |-> build_path(s1), ret |-> TRUE]
               ELSE [st |-> GreedyExpand(s1, x, y), ret |-> FALSE]

astar_step(s) ==
    LET bestIdx == ScanBest(s, AStarScore(s), 0, -1, INF)
    IN IF bestIdx = -1 THEN StepIdle(s)
       ELSE LET x == bestIdx % s.N
                y == bestIdx \div s.N
                s1 == ScanStepMark(s, bestIdx)
            IN IF x = s.goalX /\ y = s.goalY
               THEN [st |-> build_path(s1), ret |-> TRUE]
               ELSE [st |-> RelaxExpand(s1, x, y), ret |-> FALSE]

dijkstra_scan_step(s) ==
    LET bestIdx == ScanBest(s, DijkstraScore(s), 0, -1, INF)
    IN IF bestIdx = -1 THEN StepIdle(s)
       ELSE LET x == bestIdx % s.N
                y == bestIdx \div s.N
                s1 == ScanStepMark(s, bestIdx)
            IN IF x = s.goalX /\ y = s.goalY
               THEN [st |-> build_path(s1), ret |-> TRUE]
               ELSE [st |-> RelaxExpand(s1, x, y), ret |-> FALSE]

----------------------------------------------------------------------------
(* Dijkstra on the indexed min-heap keyed by dist *)

\* heap_swap without the heap_pos[vb] = a assignment
heap_swapMut(s, a, b) ==
    LET va == s.heap[a]
        vb == s.heap[b]
        h1 == [s.heap EXCEPT ![a] = vb]
        h2 == [h1 EXCEPT ![b] = va]
    IN [s EXCEPT !.heap = h2, !.heap_pos[va] = b]

heap_swap(s, a, b) ==
    LET va == s.heap[a]
        vb == s.heap[b]
        h1 == [s.heap EXCEPT ![a] = vb]
        h2 == [h1 EXCEPT ![b] = va]
        p1 == [s.heap_pos EXCEPT ![va] = b]
        p2 == [p1 EXCEPT ![vb] = a]
    IN [s EXCEPT !.heap = h2, !.heap_pos = p2]

RECURSIVE heap_up(_, _)
heap_up(s, idx) ==
    IF idx > 0
    THEN LET parent == (idx - 1) \div 2
         IN IF s.dist[s.heap[idx]] >= s.dist[s.heap[parent]] THEN s
            ELSE heap_up(heap_swap(s, idx, parent), parent)
    ELSE s

\* heap_down that leaves the new root where heap_pop put it
heap_downMut(s, idx) == s

RECURSIVE heap_down(_, _)
heap_down(s, idx) ==
    LET left == 2 * idx + 1
        right == left + 1
        s1 == IF left < s.heap_len /\ s.dist[s.heap[left]] < s.dist[s.heap[idx]]
              THEN left ELSE idx
        smallest == IF right < s.heap_len /\ s.dist[s.heap[right]] < s.dist[s.heap[s1]]
                    THEN right ELSE s1
    IN IF smallest = idx THEN s
       ELSE heap_down(heap_swap(s, idx, smallest), smallest)

heap_push(s, cell) ==
    LET s1 == [s EXCEPT !.heap[s.heap_len] = cell, !.heap_pos[cell] = s.heap_len]
    IN [heap_up(s1, s.heap_len) EXCEPT !.heap_len = @ + 1]

\* the value returned and the state left; -1 on an empty heap
heap_pop(s) ==
    IF s.heap_len = 0 THEN [top |-> -1, st |-> s]
    ELSE LET top == s.heap[0]
             s1 == [s EXCEPT !.heap_len = @ - 1]
             s2 == IF s1.heap_len > 0
                   THEN LET last == s1.heap[s1.heap_len]
                        IN heap_down([s1 EXCEPT !.heap[0] = last,
                                                !.heap_pos[last] = 0], 0)
                   ELSE s1
         IN [top |-> top, st |-> [s2 EXCEPT !.heap_pos[top] = -1]]

heap_decrease_key(s, cell) ==
    LET pos == s.heap_pos[cell]
    IN IF pos >= 0 THEN heap_up(s, pos) ELSE heap_push(s, cell)

\* int nd = s->dist[y * s->N + x] + 1
DijkstraNewDistMut(s, x, y) == s.dist[y * s.N + x] + 2

DijkstraNewDist(s, x, y) == s.dist[y * s.N + x] + 1

\* body of the neighbour loop of heap Dijkstra for direction i
HeapRelaxVisit(s, x, y, i) ==
    LET nx == NeighbourX(x, i)
        ny == NeighbourY(y, i)
        idx == ny * s.N + nx
        nd == DijkstraNewDist(s, x, y)
    IN IF IsOpen(s, nx, ny) /\ s.processed[idx] = 0 /\ nd < s.dist[idx]
       THEN heap_decrease_key([s EXCEPT !.dist[idx] = nd,
                                        !.parent[idx] = y * s.N + x,
                                        !.visited[idx] = 1], idx)
       ELSE s

HeapRelaxExpand(s, x, y) ==
    HeapRelaxVisit(HeapRelaxVisit(HeapRelaxVisit(HeapRelaxVisit(
        s, x, y, 0), x, y, 1), x, y, 2), x, y, 3)

\* s->processed[bestIdx] = 1
MarkProcessedMut(s, idx) == s

MarkProcessed(s, idx) == [s EXCEPT !.processed[idx] = 1]

dijkstra_step(s) ==
    LET s0 == IF s.heap_len = 0
              THEN heap_push(s, s.startY * s.N + s.startX)
              ELSE s
        bestIdx == heap_pop(s0).top
        s1 == heap_pop(s0).st
    IN IF bestIdx = -1 THEN [st |-> s1, ret |-> FALSE]
       ELSE IF s1.processed[bestIdx] # 0 THEN [st |-> s1, ret |-> FALSE]
       ELSE LET x == bestIdx % s1.N
                y == bestIdx \div s1.N
                s2 == MarkProcessed(s1, bestIdx)
            IN IF x = s1.goalX /\ y = s1.goalY
               THEN [st |-> build_path(s2), ret |-> TRUE]
               ELSE [st |-> HeapRelaxExpand(s2, x, y), ret |-> FALSE]

----------------------------------------------------------------------------
(* The mazes, direction orders and start/goal pairs the search model draws *)

\* side of the grid (the program uses N = 31)
GridN == 5
\* how many of the 24 orderings ShuffleDirs can leave in dirs are drawn
MaxDirOrders == 2

\* the cells that may be PATH: the first two interior rows; together with
\* the wall border maze generation keeps, every other cell is WALL
OpenRows(N) == {y \in 1..(N - 2) : y <= 2}
MayBeOpen(N) == {c \in (1..(N - 2)) \X OpenRows(N) : TRUE}

Mazes(N) ==
    {[y \in 0..(N - 1) |-> [x \in 0..(N - 1) |->
        IF <<x, y>> \in open THEN PATH ELSE WALL]] : open \in SUBSET MayBeOpen(N)}

Permutations4 == {p \in [0..3 -> 0..3] : \A a, b \in 0..3 : a # b => p[a] # p[b]}

\* position of p in the lexicographic list of the 24 permutations
LehmerRank(p) ==
    LET c(i) == Cardinality({j \in (i + 1)..3 : p[j] < p[i]})
    IN c(0) * 6 + c(1) * 2 + c(2)

\* the orderings drawn, spread over the 24 (rank 0 is the initial order)
DirOrders ==
    {[i \in 0..3 |-> InitialDirs[p[i]]] :
        p \in {q \in Permutations4 : (LehmerRank(q) * 7) % 24 < MaxDirOrders}}

SearchAlgos == {"BFS", "DFS", "Greedy", "A*", "Dijkstra", "DijkstraScan"}

\* the sort side while maze() runs
SortIdle ==
    /\ sortAlgo = "none"
    /\ sortState = <<>>
    /\ sortRet = FALSE
    /\ input = <<>>
    /\ calls = 0
    /\ twin = <<>>

\* maze() after ResetRun: a maze, dirs as the shuffles left it, start and
\* goal two distinct PATH cells, the state search_init builds
InitSearchOf(A) ==
    /\ algo \in A
    /\ maze \in Mazes(GridN)
    /\ dirs \in DirOrders
    /\ \E sx, sy, gx, gy \in 0..(GridN - 1) :
          /\ maze[sy][sx] = PATH
          /\ maze[gy][gx] = PATH
          /\ ~(gx = sx /\ gy = sy)
          /\ state = search_init(GridN, sx, sy, gx, gy)
    /\ stepRet = FALSE
    /\ found = FALSE
    /\ SortIdle
    /\ GenIdle
    /\ HeapIdle
    /\ RunIdle

InitSearch == InitSearchOf(SearchAlgos)

BfsStep ==
    /\ algo = "BFS"
    /\ ~found
    /\ state' = bfs_step(state).st
    /\ stepRet' = bfs_step(state).ret
    /\ found' = bfs_step(state).ret
    /\ UNCHANGED <<algo, maze, dirs, sortVars, genVars, heapVars, runVars>>

DfsStep ==
    /\ algo = "DFS"
    /\ ~found
    /\ state' = dfs_step(state).st
    /\ stepRet' = dfs_step(state).ret
    /\ found' = dfs_step(state).ret
    /\ UNCHANGED <<algo, maze, dirs, sortVars, genVars, heapVars, runVars>>

GreedyStep ==
    /\ algo = "Greedy"
    /\ ~found
    /\ state' = greedy_step(state).st
    /\ stepRet' = greedy_step(state).ret
    /\ found' = greedy_step(state).ret
    /\ UNCHANGED <<algo, maze, dirs, sortVars, genVars, heapVars, runVars>>

AStarStep ==
    /\ algo = "A*"
    /\ ~found
    /\ state' = astar_step(state).st
    /\ stepRet' = astar_step(state).ret
    /\ found' = astar_step(state).ret
    /\ UNCHANGED <<algo, maze, dirs, sortVars, genVars, heapVars, runVars>>

DijkstraStep ==
    /\ algo = "Dijkstra"
    /\ ~found
    /\ state' = dijkstra_step(state).st
    /\ stepRet' = dijkstra_step(state).ret
    /\ found' = dijkstra_step(state).ret
    /\ UNCHANGED <<algo, maze, dirs, sortVars, genVars, heapVars, runVars>>

DijkstraScanStep ==
    /\ algo = "DijkstraScan"
    /\ ~found
    /\ state' = dijkstra_scan_step(state).st
    /\ stepRet' = dijkstra_scan_step(state).ret
    /\ found' = dijkstra_scan_step(state).ret
    /\ UNCHANGED <<algo, maze, dirs, sortVars, genVars, heapVars, runVars>>

\* each action is one tick of maze()'s loop: if (!found) found = step(&state)
NextSearch ==
    BfsStep \/ DfsStep \/ GreedyStep \/ AStarStep \/ DijkstraStep \/ DijkstraScanStep

\* maze.h with any one of the search headers included
SearchSpec == InitSearch /\ [][NextSearch]_vars

\* maze.h with bfs.h included
BfsSpec == InitSearchOf({"BFS"}) /\ [][BfsStep]_vars

\* maze.h with astar.h or either dijkstra.h included
NextShortest == AStarStep \/ DijkstraStep \/ DijkstraScanStep

ShortestSpec ==
    InitSearchOf({"A*", "Dijkstra", "DijkstraScan"}) /\ [][NextShortest]_vars

----------------------------------------------------------------------------
(* Search claims *)

StartIdx(s) == s.startY * s.N + s.startX
GoalIdx(s) == s.goalY * s.N + s.goalX

\* reference: linear indices a and b are PATH cells one move apart
Adjacent(s, a, b) ==
    /\ maze[a \div s.N][a % s.N] = PATH
    /\ maze[b \div s.N][b % s.N] = PATH
    /\ Abs((a % s.N) - (b % s.N)) + Abs((a \div s.N) - (b \div s.N)) = 1

\* reference: the pairs <<cell, d>> of the cells at distance d, d + 1, ...
\* from the source, by plain layer-by-layer flooding
RECURSIVE FloodLayers(_, _, _, _)
FloodLayers(s, seen, frontier, d) ==
    IF frontier = {} THEN {}
    ELSE LET next == {b \in 0..(s.max - 1) \ seen : \E a \in frontier : Adjacent(s, a, b)}
         IN {<<a, d>> : a \in frontier} \cup FloodLayers(s, seen \cup next, next, d + 1)

\* reference: true shortest-path length between two cells, INF if none
ShortestLen(s, from, to) ==
    LET layers == FloodLayers(s, {from}, {from}, 0)
    IN IF \E pr \in layers : pr[1] = to
       THEN (CHOOSE pr \in layers : pr[1] = to)[2]
       ELSE INF

PathCellCount == Cardinality({c \in (0..(GridN - 1)) \X (0..(GridN - 1)) : maze[c[2]][c[1]] = PATH})

\* path runs from start to goal over 4-neighbouring PATH cells, none twice
ValidPath(s) ==
    LET q == s.path
    IN /\ Len(q) >= 1
       /\ q[1] = Cell(s.startX, s.startY)
       /\ q[Len(q)] = Cell(s.goalX, s.goalY)
       /\ \A k \in 1..Len(q) : IsOpen(s, q[k].x, q[k].y)
       /\ \A k \in 1..(Len(q) - 1) :
             Abs(q[k].x - q[k + 1].x) + Abs(q[k].y - q[k + 1].y) = 1
       /\ \A k, l \in 1..Len(q) : k # l => q[k] # q[l]

\* the cells a variant still holds for expansion
Frontier(a, s) ==
    CASE a = "BFS" -> {s.queue[k].y * s.N + s.queue[k].x : k \in (s.head + 1)..Len(s.queue)}
      [] a = "DFS" -> {s.queue[k].y * s.N + s.queue[k].x : k \in 1..Len(s.queue)}
      [] a \in {"Greedy", "A*", "DijkstraScan"} ->
            {i \in 0..(s.max - 1) : s.visited[i] # 0 /\ s.processed[i] = 0}
      [] a = "Dijkstra" ->
            IF s.heap_len = 0
            THEN {i \in {StartIdx(s)} : s.processed[i] = 0}
            ELSE {s.heap[k] : k \in 0..(s.heap_len - 1)}

\* C6: in every search variant, whenever step returns true, path starts at
\* the start, ends at the goal, moves between 4-neighbours over PATH cells
\* and repeats no cell; and step returns true only on the call that takes
\* the goal out of the frontier.
C6_TrueMeansValidPath ==
    /\ [](stepRet = TRUE => ValidPath(state))
    /\ [][stepRet' = TRUE =>
            /\ GoalIdx(state) \in Frontier(algo, state)
            /\ GoalIdx(state) \notin Frontier(algo, state')]_vars

\* a variant has returned true with a path that takes a detour
C6_Witness ==
    /\ stepRet = TRUE
    /\ Len(state.path) >= 5
    /\ Len(state.path) - 1 > ShortestLen(state, StartIdx(state), GoalIdx(state))

\* C7: on any grid, with or without cycles, the path BFS has built when step
\* returns true has the least possible number of moves from start to goal.
C7_BfsPathIsShortest ==
    (algo = "BFS" /\ stepRet = TRUE) =>
        Len(state.path) - 1 = ShortestLen(state, StartIdx(state), GoalIdx(state))

\* BFS has found the goal two moves away on a grid with a cycle, where a
\* longer route exists as well
C7_Witness ==
    /\ algo = "BFS"
    /\ stepRet = TRUE
    /\ Len(state.path) = 3
    /\ PathCellCount = 6

\* number of parent links from cell i back to the start (INF if the chain
\* ends at a -1 before it)
RECURSIVE ParentDepth(_, _)
ParentDepth(s, i) ==
    IF i = StartIdx(s) THEN 0
    ELSE IF s.parent[i] < 0 THEN INF
    ELSE 1 + ParentDepth(s, s.parent[i])

\* C8 as stated: under BFS every visited cell's dist is the true
\* shortest-path length from the start.
C8_BfsDistIsShortest ==
    (algo = "BFS") =>
        \A i \in 0..(state.max - 1) :
            state.visited[i] # 0 => state.dist[i] = ShortestLen(state, StartIdx(state), i)

\* C8 amended: BFS never writes dist (it stays 0 at the start and INF
\* elsewhere); what equals the true shortest-path length of every visited
\* cell is the number of parent links from it back to the start.
C8_BfsParentDepthIsShortest ==
    (algo = "BFS") =>
        \A i \in 0..(state.max - 1) :
            /\ state.dist[i] = (IF i = StartIdx(state) THEN 0 ELSE INF)
            /\ state.visited[i] # 0 =>
                  ParentDepth(state, i) = ShortestLen(state, StartIdx(state), i)

\* BFS has returned true with the goal three moves away
C8_Witness ==
    /\ algo = "BFS"
    /\ stepRet = TRUE
    /\ ParentDepth(state, GoalIdx(state)) = 3
    /\ state.dist[GoalIdx(state)] = INF

\* C9: on every grid and start/goal pair with the goal reachable, A* and
\* Dijkstra (heap and array scan), each run until step returns true, build
\* paths of the same length: the shortest-path length.
C9_AStarDijkstraSameLength ==
    (algo \in {"A*", "Dijkstra", "DijkstraScan"} /\ stepRet = TRUE) =>
        Len(state.path) - 1 = ShortestLen(state, StartIdx(state), GoalIdx(state))

\* A* has returned true on a grid with a cycle while cells it had
\* discovered were still unexpanded
C9_Witness ==
    /\ algo = "A*"
    /\ stepRet = TRUE
    /\ Len(state.path) >= 3
    /\ PathCellCount = 6
    /\ Frontier("A*", state) # {}

\* C10: in Dijkstra (both implementations), a processed cell's dist never
\* changes in a later step and is the true shortest-path distance from the
\* start.
C10_ProcessedDistIsFinal ==
    /\ [](algo \in {"Dijkstra", "DijkstraScan"} =>
            \A i \in 0..(state.max - 1) :
                state.processed[i] # 0 =>
                    state.dist[i] = ShortestLen(state, StartIdx(state), i))
    /\ [][(algo \in {"Dijkstra", "DijkstraScan"}) =>
            (\A i \in 0..(state.max - 1) :
                state.processed[i] # 0 => state'.dist[i] = state.dist[i])]_vars

\* heap Dijkstra has processed a cell three moves away and holds more
C10_Witness ==
    /\ algo = "Dijkstra"
    /\ state.heap_len >= 1
    /\ \E i \in 0..(state.max - 1) : state.processed[i] # 0 /\ state.dist[i] = 3

----------------------------------------------------------------------------
(* The min-heap helpers that take the score array as a parameter           *)
(* (heap_up, heap_down, heap_push, heap_pop, heap_decrease_key with a      *)
(* const int *score argument); heap_swap is the same function in both sets *)

RECURSIVE score_heap_up(_, _, _)
score_heap_up(s, score, idx) ==
    IF idx > 0
    THEN LET p == (idx - 1) \div 2
         IN IF score[s.heap[idx]] >= score[s.heap[p]] THEN s
            ELSE score_heap_up(heap_swap(s, idx, p), score, p)
    ELSE s

RECURSIVE score_heap_down(_, _, _)
score_heap_down(s, score, idx) ==
    LET l == idx * 2 + 1
        r == idx * 2 + 2
        s1 == IF l < s.heap_len /\ score[s.heap[l]] < score[s.heap[idx]]
              THEN l ELSE idx
        smallest == IF r < s.heap_len /\ score[s.heap[r]] < score[s.heap[s1]]
                    THEN r ELSE s1
    IN IF smallest = idx THEN s
       ELSE score_heap_down(heap_swap(s, idx, smallest), score, smallest)

score_heap_push(s, score, v) ==
    LET s1 == [s EXCEPT !.heap[s.heap_len] = v, !.heap_pos[v] = s.heap_len]
    IN [score_heap_up(s1, score, s.heap_len) EXCEPT !.heap_len = @ + 1]

\* the value returned and the state left; there is no test for heap_len == 0
score_heap_pop(s, score) ==
    LET v == s.heap[0]
        s1 == [s EXCEPT !.heap_pos[v] = -1, !.heap_len = @ - 1]
        s2 == IF s1.heap_len > 0
              THEN LET last == s1.heap[s1.heap_len]
                   IN score_heap_down([s1 EXCEPT !.heap[0] = last,
                                                 !.heap_pos[last] = 0], score, 0)
              ELSE s1
    IN [top |-> v, st |-> s2]

\* an absent value is left alone
score_heap_decrease_key(s, score, v) ==
    LET idx == s.heap_pos[v]
    IN IF idx >= 0 THEN score_heap_up(s, score, idx) ELSE s

----------------------------------------------------------------------------
(* The helpers exercised on their own: a caller that pushes, pops and      *)
(* lowers scores in any order.  heap_push is given a value that is not in  *)
(* the heap, as at its call sites (heap_decrease_key tests heap_pos[cell],  *)
(* step tests heap_len == 0); the score-parameter heap_pop, which has no   *)
(* caller and no test for an empty heap, is given a non-empty heap.        *)

\* number of values (cells) and of heap slots: s->max
HeapMax == 3
\* scores the caller writes are drawn from 0..MaxScore
MaxScore == 2

HeapImpls == {"dist", "score"}

\* the heap fields as search_init leaves them
HeapStart ==
    [ max |-> HeapMax,
      dist |-> [i \in 0..(HeapMax - 1) |-> INF],
      fscore |-> [i \in 0..(HeapMax - 1) |-> INF],
      heap |-> [i \in 0..(HeapMax - 1) |-> 0],
      heap_pos |-> [i \in 0..(HeapMax - 1) |-> -1],
      heap_len |-> 0 ]

InitHeap ==
    /\ heapImpl \in HeapImpls
    /\ heapState = HeapStart
    /\ SortIdle
    /\ SearchIdle
    /\ GenIdle
    /\ RunIdle

\* s->dist[cell] = sc; heap_push(s, cell);
DistHeapPush ==
    /\ heapImpl = "dist"
    /\ \E v \in 0..(heapState.max - 1), sc \in 0..MaxScore :
          /\ heapState.heap_pos[v] < 0
          /\ heapState' = heap_push([heapState EXCEPT !.dist[v] = sc], v)
    /\ UNCHANGED <<heapImpl, sortVars, searchVars, genVars, runVars>>

\* heap_pop(s);
DistHeapPop ==
    /\ heapImpl = "dist"
    /\ heapState' = heap_pop(heapState).st
    /\ UNCHANGED <<heapImpl, sortVars, searchVars, genVars, runVars>>

\* s->dist[cell] = sc, a lower score; heap_decrease_key(s, cell);
DistHeapDecreaseKey ==
    /\ heapImpl = "dist"
    /\ \E v \in 0..(heapState.max - 1), sc \in 0..MaxScore :
          /\ sc < heapState.dist[v]
          /\ heapState' = heap_decrease_key([heapState EXCEPT !.dist[v] = sc], v)
    /\ UNCHANGED <<heapImpl, sortVars, searchVars, genVars, runVars>>

\* s->fscore[v] = sc; heap_push(s, s->fscore, v);
ScoreHeapPush ==
    /\ heapImpl = "score"
    /\ \E v \in 0..(heapState.max - 1), sc \in 0..MaxScore :
          /\ heapState.heap_pos[v] < 0
          /\ LET s1 == [heapState EXCEPT !.fscore[v] = sc]
             IN heapState' = score_heap_push(s1, s1.fscore, v)
    /\ UNCHANGED <<heapImpl, sortVars, searchVars, genVars, runVars>>

\* heap_pop(s, s->fscore);
ScoreHeapPop ==
    /\ heapImpl = "score"
    /\ heapState.heap_len > 0
    /\ heapState' = score_heap_pop(heapState, heapState.fscore).st
    /\ UNCHANGED <<heapImpl, sortVars, searchVars, genVars, runVars>>

\* s->fscore[v] = sc, a lower score; heap_decrease_key(s, s->fscore, v);
ScoreHeapDecreaseKey ==
    /\ heapImpl = "score"
    /\ \E v \in 0..(heapState.max - 1), sc \in 0..MaxScore :
          /\ sc < heapState.fscore[v]
          /\ LET s1 == [heapState EXCEPT !.fscore[v] = sc]
             IN heapState' = score_heap_decrease_key(s1, s1.fscore, v)
    /\ UNCHANGED <<heapImpl, sortVars, searchVars, genVars, runVars>>

NextHeap ==
    \/ DistHeapPush \/ DistHeapPop \/ DistHeapDecreaseKey
    \/ ScoreHeapPush \/ ScoreHeapPop \/ ScoreHeapDecreaseKey

HeapSpec == InitHeap /\ [][NextHeap]_vars

----------------------------------------------------------------------------
(* Min-heap claims *)

\* the score array the exercised helpers compare by
HeapKey == IF heapImpl = "dist" THEN heapState.dist ELSE heapState.fscore

InHeap(v) == \E i \in 0..(heapState.heap_len - 1) : heapState.heap[i] = v

----------------------------------------------------------------------------
(* Maze generation: GenerateMaze is recursive; genStack holds the frames   *)
(* (x, y and the loop index i) and every action is one piece of the        *)
(* innermost frame.  dirs is the one global array: the ShuffleDirs of a    *)
(* nested call reorders it under the loops of the calls still active.      *)

\* largest side n generated with every outcome of the shuffles (the program
\* uses N = 31); n is odd
MaxGenN == 5
\* a wider side, generated with the first MaxDraws outcomes of each shuffle
WideGenN == 7
MaxDraws == 2

GenSizes == {n \in 3..MaxGenN : n % 2 = 1} \cup {WideGenN}

\* one iteration of the loop of ShuffleDirs: swap dirs[i] and dirs[r]
ShuffleSwapMut(d, i, r) == [d EXCEPT ![i] = d[r]]

ShuffleSwap(d, i, r) == [d EXCEPT ![i] = d[r], ![r] = d[i]]

\* ShuffleDirs with rs[i] the value of rand() % 4 in iteration i
ShuffleDirs(d, rs) ==
    ShuffleSwap(ShuffleSwap(ShuffleSwap(ShuffleSwap(
        d, 0, rs[0]), 1, rs[1]), 2, rs[2]), 3, rs[3])

\* the four values of rand() % 4 of one ShuffleDirs, numbered 0..255 in
\* lexicographic order
DrawOf(d) ==
    [i \in 0..3 |->
        CASE i = 0 -> (d \div 64) % 4
          [] i = 1 -> (d \div 16) % 4
          [] i = 2 -> (d \div 4) % 4
          [] i = 3 -> d % 4]

\* the outcomes of rand() drawn for a maze of side n
RandDraws(n) ==
    IF n <= MaxGenN THEN {DrawOf(d) : d \in 0..255}
    ELSE {DrawOf(d) : d \in 0..(MaxDraws - 1)}

\* the first call: GenerateMaze(maze, 1, 1, N)
GenerateMazeStartMut == [x |-> 0, y |-> 0]

GenerateMazeStart == [x |-> 1, y |-> 1]

\* the cell two steps on in direction i: nx, ny
DirTarget(d, x, y, i) == [x |-> x + d[i][0] * 2, y |-> y + d[i][1] * 2]

GenTarget(x, y, i) == DirTarget(dirs, x, y, i)

\* the cell between: maze[y + dirs[i][1]][x + dirs[i][0]]
GenBetweenMut(x, y, i) == [x |-> x, y |-> y]

DirBetween(d, x, y, i) == [x |-> x + d[i][0], y |-> y + d[i][1]]

GenBetween(x, y, i) == DirBetween(dirs, x, y, i)

\* nx > 0 && nx < n-1 && ny > 0 && ny < n-1
GenInsideMut(c, n) == c.x > 0 /\ c.x < n - 2 /\ c.y > 0 /\ c.y < n - 2

GenInside(c, n) == c.x > 0 /\ c.x < n - 1 /\ c.y > 0 /\ c.y < n - 1

\* maze[ny][nx] == WALL
GenUnvisitedMut(mz, c) == TRUE

GenUnvisited(mz, c) == mz[c.y][c.x] = WALL

\* the loop of ResetRun that clears the maze
AllWall(n) == [y \in 0..(n - 1) |-> [x \in 0..(n - 1) |-> WALL]]

\* the first two statements of a call: maze[y][x] = PATH; ShuffleDirs();
\* and its frame entering the loop with i = 0
GenEnter(mz, c) ==
    /\ maze' = [mz EXCEPT ![c.y][c.x] = PATH]
    /\ dirs' \in {ShuffleDirs(dirs, rs) : rs \in RandDraws(genN)}
    /\ genStack' = Append(genStack, [x |-> c.x, y |-> c.y, i |-> 0])

GenTop == genStack[Len(genStack)]

\* ResetRun has cleared the maze and is about to call GenerateMaze
InitGen ==
    /\ genN \in GenSizes
    /\ genStack = <<>>
    /\ maze = AllWall(genN)
    /\ dirs = InitialDirs
    /\ algo = "none"
    /\ state = <<>>
    /\ stepRet = FALSE
    /\ found = FALSE
    /\ SortIdle
    /\ HeapIdle
    /\ RunIdle

\* ResetRun calls GenerateMaze(maze, 1, 1, N)
GenStartCore ==
    /\ genStack = <<>>
    /\ maze = AllWall(genN)
    /\ GenEnter(maze, GenerateMazeStart)
    /\ UNCHANGED <<genN, algo, state, stepRet, found, sortVars, heapVars>>

GenStart == GenStartCore /\ UNCHANGED runVars

\* a loop iteration whose target is inside and still WALL: the wall between
\* is carved and GenerateMaze is called on the target
GenCarveCore ==
    /\ genStack # <<>>
    /\ GenTop.i < 4
    /\ LET f == GenTop
           t == GenTarget(f.x, f.y, f.i)
           b == GenBetween(f.x, f.y, f.i)
       IN /\ GenInside(t, genN)
          /\ GenUnvisited(maze, t)
          /\ GenEnter([maze EXCEPT ![b.y][b.x] = PATH], t)
    /\ UNCHANGED <<genN, algo, state, stepRet, found, sortVars, heapVars>>

GenCarve == GenCarveCore /\ UNCHANGED runVars

\* a loop iteration whose target is outside or already PATH: i++
GenSkipCore ==
    /\ genStack # <<>>
    /\ GenTop.i < 4
    /\ LET f == GenTop
           t == GenTarget(f.x, f.y, f.i)
       IN ~(GenInside(t, genN) /\ GenUnvisited(maze, t))
    /\ genStack' = [genStack EXCEPT ![Len(genStack)].i = @ + 1]
    /\ UNCHANGED <<genN, maze, dirs, algo, state, stepRet, found, sortVars, heapVars>>

GenSkip == GenSkipCore /\ UNCHANGED runVars

\* the loop is over: the call returns and the caller's loop goes on with i++
GenReturnCore ==
    /\ genStack # <<>>
    /\ GenTop.i = 4
    /\ LET rest == SubSeq(genStack, 1, Len(genStack) - 1)
       IN genStack' = IF rest = <<>> THEN rest
                      ELSE [rest EXCEPT ![Len(rest)].i = @ + 1]
    /\ UNCHANGED <<genN, maze, dirs, algo, state, stepRet, found, sortVars, heapVars>>

GenReturn == GenReturnCore /\ UNCHANGED runVars

NextGen == GenStart \/ GenCarve \/ GenSkip \/ GenReturn

GenSpec == InitGen /\ [][NextGen]_vars

\* GenerateMaze(maze, 1, 1, N) has returned
GenDone == genN > 0 /\ genStack = <<>> /\ maze # AllWall(genN)

----------------------------------------------------------------------------
(* Maze generation claims *)

GenCells == (0..(genN - 1)) \X (0..(genN - 1))

GenPathCells == {c \in GenCells : maze[c[2]][c[1]] = PATH}

\* the odd-coordinate interior cells
GenRooms == {c \in GenCells : c[1] % 2 = 1 /\ c[2] % 2 = 1
                               /\ c[1] < genN - 1 /\ c[2] < genN - 1}

\* reference: the linear indices a flood fill from (1,1) reaches
GenFlooded ==
    LET g == [N |-> genN, max |-> genN * genN]
        from == 1 * genN + 1
    IN {pr[1] : pr \in FloodLayers(g, {from}, {from}, 0)}

\* reference: the unordered pairs of PATH cells one move apart
GenPathEdges ==
    {e \in GenPathCells \X GenPathCells :
        \/ e[2][1] = e[1][1] + 1 /\ e[2][2] = e[1][2]
        \/ e[2][1] = e[1][1] /\ e[2][2] = e[1][2] + 1}

\* the first call has set maze[1][1]
GenBegun == genN > 0 /\ maze[1][1] = PATH

\* C13: after GenerateMaze(maze, 1, 1, n) on an all-WALL grid of odd size n
\* (and at every point from its first statement on), whatever the shuffles
\* drew, a flood fill from (1,1) reaches exactly as many cells as are PATH.
C13_PathCellsConnected ==
    GenBegun => Cardinality(GenFlooded) = Cardinality(GenPathCells)

\* generation of the 5 x 5 maze is over with four rooms and three walls carved
C13_Witness ==
    /\ GenDone
    /\ genN = 5
    /\ Cardinality(GenPathCells) = 7

\* C14: after GenerateMaze (and at every point from its first statement on)
\* the PATH cells contain no cycle: they are joined by one pair of
\* neighbours fewer than there are PATH cells, and the carved wall cells are
\* one fewer than the carved rooms.
C14_PathCellsAcyclic ==
    GenBegun =>
        /\ Cardinality(GenPathEdges) = Cardinality(GenPathCells) - 1
        /\ Cardinality(GenPathCells \ GenRooms)
              = Cardinality(GenPathCells \cap GenRooms) - 1

\* generation of the 5 x 5 maze is over and the wall that would close the
\* ring of its four rooms between (1,1) and (3,1) was left standing
C14_Witness ==
    /\ GenDone
    /\ genN = 5
    /\ GenRooms \subseteq GenPathCells
    /\ maze[1][2] = WALL

\* C15: after GenerateMaze(maze, 1, 1, n) on an all-WALL grid of odd size
\* n >= 3, whatever the shuffles drew, every interior cell whose
\* coordinates are both odd is PATH.
C15_EveryRoomCarved == GenDone => GenRooms \subseteq GenPathCells

\* C16: at every point during and after GenerateMaze on an odd-sized grid,
\* every cell with x == 0, x == n-1, y == 0 or y == n-1 is WALL.
C16_BorderIsWall ==
    \A c \in GenCells :
        (c[1] = 0 \/ c[1] = genN - 1 \/ c[2] = 0 \/ c[2] = genN - 1)
            => maze[c[2]][c[1]] = WALL

\* three calls deep, the loop is about to test a target that is not inside
C16_Witness ==
    /\ Len(genStack) >= 3
    /\ GenTop.i < 4
    /\ ~GenInside(GenTarget(GenTop.x, GenTop.y, GenTop.i), genN)

----------------------------------------------------------------------------
(* Bubble sort step counts *)

ReverseSorted(v, n) == \A a, b \in 0..(n - 1) : a < b => v[a] >= v[b]

\* n*(n-1)/2
PairCount(n) == (n * (n - 1)) \div 2

\* the input [5,4,3,2,1]
FiveDown == [k \in 0..4 |-> 5 - k]

\* the scenario of the claim: [5,4,3,2,1] ends as [1,2,3,4,5] after 10
\* comparisons and 10 swaps
FiveDownScenario ==
    (input = FiveDown /\ sortState.finished) =>
        /\ sortState.values = [k \in 0..4 |-> k + 1]
        /\ sortState.comparisons = 10
        /\ sortState.swaps = 10

\* C17 as claimed: bubble sort on a reverse-sorted input of length n takes
\* exactly n*(n-1)/2 sort_step calls up to and including the first that
\* returns true; [5,4,3,2,1] ends as [1,2,3,4,5] with 10 comparisons, 10 swaps.
C17_ReverseSortedCalls ==
    (sortAlgo = "bubble" /\ ReverseSorted(input, sortState.n)) =>
        /\ sortState.finished => calls = PairCount(sortState.n)
        /\ FiveDownScenario

\* C17 amended: the count is n*(n-1)/2 for n >= 2; for n <= 1 it is the one
\* call that finds n <= 1 and returns true.
C17_ReverseSortedCallsFromTwo ==
    (sortAlgo = "bubble" /\ ReverseSorted(input, sortState.n)) =>
        LET expected == IF sortState.n >= 2 THEN PairCount(sortState.n) ELSE 1
        IN /\ sortState.finished => calls = expected /\ sortRet = TRUE
           /\ ~sortState.finished => calls < expected /\ sortRet = FALSE
           /\ FiveDownScenario

\* [5,4,3,2,1] has been sorted by ten calls
C17_Witness ==
    /\ sortAlgo = "bubble"
    /\ input = FiveDown
    /\ sortState.finished
    /\ calls = 10

\* C18 as claimed: on an already-sorted input of length n sort_step sets
\* finished after exactly n-1 calls (an early exit after the first pass
\* without a swap); stated for the lengths that have a first pass, n >= 2.
C18_SortedInputEarlyExit ==
    (sortAlgo = "bubble" /\ NonDecreasing(input, sortState.n)
                        /\ sortState.n >= 2 /\ sortState.finished)
        => calls = sortState.n - 1

\* C18 amended: there is no early exit; an already-sorted input of length
\* n >= 2 takes all n*(n-1)/2 calls (one call for n <= 1), none of which
\* swaps.
C18_SortedInputAllPasses ==
    (sortAlgo = "bubble" /\ NonDecreasing(input, sortState.n)) =>
        LET expected == IF sortState.n >= 2 THEN PairCount(sortState.n) ELSE 1
        IN /\ sortState.finished => calls = expected
           /\ ~sortState.finished => calls < expected
           /\ sortState.swaps = 0
           /\ sortState.values = input

\* [1,2,3,4] is in its second pass, after the first pass without a swap
C18_Witness ==
    /\ sortAlgo = "bubble"
    /\ input = [k \in 0..3 |-> k + 1]
    /\ ~sortState.finished
    /\ sortState.i = 1
    /\ calls = 4

----------------------------------------------------------------------------
(* Quick sort's explicit stack *)

----------------------------------------------------------------------------
(* Which call returns true first *)

\* the call did a unit of sorting work: a comparison, a swap, a write to
\* values or a write to aux
DidWork ==
    \/ sortState'.comparisons # sortState.comparisons
    \/ sortState'.swaps # sortState.swaps
    \/ sortState'.values # sortState.values
    \/ sortState'.aux # sortState.aux

\* the call that sets finished: the first to return true
FirstTrueCall == ~sortState.finished /\ sortState'.finished

\* C20 as claimed: for every sort variant the first call that returns true
\* is itself a call that performed a unit of sorting work; stated for the
\* arrays that need any work, n >= 2.
C20_TrueOnWorkingCall ==
    [][(FirstTrueCall /\ sortState.n >= 2) => DidWork]_vars

\* C20 amended: the first call that returns true did work only in bubble
\* sort on n >= 2; in selection, merge, quick and heap sort, and for n <= 1
\* in every variant, it only finds the sort complete, one call after the
\* last unit of work.
C20_TrueOnDetectingCall ==
    [][FirstTrueCall =>
          /\ sortRet' = TRUE
          /\ DidWork <=> (sortAlgo = "bubble" /\ sortState.n >= 2)]_vars

\* a merge sort of three elements has returned true
C20_Witness ==
    /\ sortAlgo = "merge"
    /\ sortState.n = 3
    /\ sortState.finished
    /\ sortRet = TRUE
    /\ sortState.comparisons > 0

----------------------------------------------------------------------------
(* Arrays of at most one element *)

\* the fields of SortState a call on a trivial array may set
FinishFields == {"finished", "timeDone"}

\* C21: for every sort variant, when n <= 1 the first sort_step call sets
\* finished and returns true, and touches nothing else: values, aux, stackL,
\* stackR and every cursor and counter keep what they held, so the outcome
\* does not depend on any element of the buffers.
C21_TrivialArrayFinishesAtOnce ==
    [][(sortState.n <= 1 /\ calls = 0 /\ ~sortState.finished) =>
          /\ sortRet' = TRUE
          /\ sortState'.finished
          /\ \A f \in (DOMAIN sortState) \ FinishFields :
                sortState'[f] = sortState[f]]_vars

\* a quick sort of one element has finished on its first call with the range
\* sort_init pushed still on the stack
C21_Witness ==
    /\ sortAlgo = "quick"
    /\ sortState.n = 1
    /\ calls = 1
    /\ sortState.finished
    /\ sortRet = TRUE
    /\ sortState.stackTop = 0

----------------------------------------------------------------------------
(* An exhausted frontier *)

\* the frontier of variant a is exhausted: BFS has consumed its queue, DFS
\* has an empty stack, the scanning variants have no visited, unprocessed
\* cell, heap Dijkstra has an empty heap and a processed start
Exhausted(a, s) ==
    CASE a = "BFS" -> s.head = Len(s.queue)
      [] a = "DFS" -> Len(s.queue) = 0
      [] a \in {"Greedy", "A*", "DijkstraScan"} ->
            \A i \in 0..(s.max - 1) : ~(s.visited[i] # 0 /\ s.processed[i] = 0)
      [] a = "Dijkstra" -> s.heap_len = 0 /\ s.processed[StartIdx(s)] # 0

\* C24: in every search variant, once the frontier is exhausted without the
\* goal having been reached, every further step call returns false, leaves
\* visited, parent, dist, processed and path unchanged, and leaves the
\* frontier exhausted.
C24_ExhaustedStepsAreIdle ==
    [][(~found /\ Exhausted(algo, state)) =>
          /\ stepRet' = FALSE
          /\ ~found'
          /\ state'.visited = state.visited
          /\ state'.parent = state.parent
          /\ state'.dist = state.dist
          /\ state'.processed = state.processed
          /\ state'.path = state.path
          /\ Exhausted(algo, state')]_vars

\* heap Dijkstra has processed the start and another cell, found the heap
\* empty and been called again: the call pushed the start back, popped it
\* and returned false
C24_Witness ==
    /\ algo = "Dijkstra"
    /\ ~found
    /\ Exhausted(algo, state)
    /\ state.heap[0] = StartIdx(state)
    /\ state.heap_pos[StartIdx(state)] = -1
    /\ \E i \in 0..(state.max - 1) : i # StartIdx(state) /\ state.processed[i] # 0
    /\ state.path = <<>>

----------------------------------------------------------------------------
(* parent and visited *)

\* C25: in every reachable SearchState of every search variant, a cell whose
\* parent is not the sentinel -1 is marked visited.
C25_ParentImpliesVisited ==
    \A i \in 0..(state.max - 1) : state.parent[i] # -1 => state.visited[i] # 0

\* a search has given three cells a parent, and the start has none
C25_Witness ==
    /\ Cardinality({i \in 0..(state.max - 1) : state.parent[i] # -1}) >= 3
    /\ state.parent[StartIdx(state)] = -1
    /\ state.visited[StartIdx(state)] # 0

----------------------------------------------------------------------------
(* ResetRun, step by step: generation, then the two rejection loops *)

\* SearchState state = {0}
SearchStateZero ==
    [ N |-> 0, startX |-> 0, startY |-> 0, goalX |-> 0, goalY |-> 0, max |-> 0,
      visited |-> <<>>, parent |-> <<>>, dist |-> <<>>, processed |-> <<>>,
      fscore |-> <<>>, heap |-> <<>>, heap_pos |-> <<>>, heap_len |-> 0,
      queue |-> <<>>, head |-> 0, path |-> <<>> ]

\* the locals of maze() before its first ResetRun; startX, startY, goalX and
\* goalY have no initializer and are written by ResetRun before any read
RunZero ==
    [startX |-> 0, startY |-> 0, goalX |-> 0, goalY |-> 0,
     pathLen |-> 0, stepCount |-> 0]

\* the sides ResetRun is followed on, each with every outcome of its shuffles
ResetSizes == {n \in 3..MaxGenN : n % 2 = 1}

\* maze() calls ResetRun for the first time, the maze cleared
InitReset ==
    /\ algo = "Dijkstra"
    /\ genN \in ResetSizes
    /\ genStack = <<>>
    /\ maze = AllWall(genN)
    /\ dirs = InitialDirs
    /\ state = SearchStateZero
    /\ stepRet = FALSE
    /\ found = FALSE
    /\ pc = "reset"
    /\ run = RunZero
    /\ stepCalls = 0
    /\ resetFrom = "start"
    /\ SortIdle
    /\ HeapIdle

\* while (maze[*startY][*startX] == WALL)
StartRejected(x, y) == maze[y][x] = WALL

\* while ((*goalX == *startX && *goalY == *startY) || maze[*goalY][*goalX] == WALL)
GoalRejectedMut(x, y) == maze[y][x] = WALL

GoalRejected(x, y) == (x = run.startX /\ y = run.startY) \/ maze[y][x] = WALL

\* one iteration of the first do-while: GenerateMaze has returned, and
\* x, y are the two values of rand() % N
PickStart ==
    /\ pc = "reset"
    /\ GenDone
    /\ \E x, y \in 0..(genN - 1) :
          /\ run' = [run EXCEPT !.startX = x, !.startY = y]
          /\ pc' = IF StartRejected(x, y) THEN "reset" ELSE "goal"
    /\ UNCHANGED <<algo, maze, dirs, state, stepRet, found, stepCalls,
                   resetFrom, genVars, sortVars, heapVars>>

\* one iteration of the second do-while; the draw that leaves the loop runs
\* ResetRun to its end: search_init and the reset of found, pathLen and
\* stepCount
PickGoal ==
    /\ pc = "goal"
    /\ \E x, y \in 0..(genN - 1) :
          IF GoalRejected(x, y)
          THEN /\ run' = [run EXCEPT !.goalX = x, !.goalY = y]
               /\ UNCHANGED <<pc, state, stepRet, found, stepCalls>>
          ELSE /\ run' = [run EXCEPT !.goalX = x, !.goalY = y,
                                     !.pathLen = 0, !.stepCount = 0]
               /\ state' = search_init(genN, run.startX, run.startY, x, y)
               /\ stepRet' = FALSE
               /\ found' = FALSE
               /\ stepCalls' = 0
               /\ pc' = "loop"
    /\ UNCHANGED <<algo, maze, dirs, resetFrom, genVars, sortVars, heapVars>>

NextReset == GenStart \/ GenCarve \/ GenSkip \/ GenReturn \/ PickStart \/ PickGoal

\* the draws that leave the loops; a cell drawn infinitely often is
\* eventually drawn while its loop waits for it
StartAccepted == PickStart /\ pc' = "goal"
GoalAccepted == PickGoal /\ pc' = "loop"

\* the first ResetRun of maze(), with rand() fair
ResetSpec ==
    /\ InitReset
    /\ [][NextReset]_vars
    /\ WF_vars(NextGen)
    /\ WF_vars(StartAccepted)
    /\ WF_vars(GoalAccepted)

----------------------------------------------------------------------------
(* Start and goal *)

\* C22: whenever the start/goal selection of ResetRun completes, the start
\* cell and the goal cell are both PATH cells of the freshly generated maze
\* and are not the same cell.
C22_StartGoalDistinctPathCells ==
    pc = "loop" =>
       /\ GenDone
       /\ maze[run.startY][run.startX] = PATH
       /\ maze[run.goalY][run.goalX] = PATH
       /\ ~(run.goalX = run.startX /\ run.goalY = run.startY)
       /\ state.startX = run.startX /\ state.startY = run.startY
       /\ state.goalX = run.goalX /\ state.goalY = run.goalY

\* the selection has completed on a maze of side 5 with the start on a
\* carved wall cell and the goal in the far room
C22_Witness ==
    /\ pc = "loop"
    /\ genN = 5
    /\ run.startX = 2 /\ run.startY = 1
    /\ run.goalX = 3 /\ run.goalY = 3

----------------------------------------------------------------------------
(* ResetRun returns *)

\* C23 as claimed: for every odd grid size N >= 3, maze generation followed
\* by the rejection-sampling start/goal selection eventually terminates
\* under fair random draws.
C23_ResetRunTerminates == <>(pc = "loop")

\* C23 amended: for every odd grid size N >= 5 generation and selection
\* eventually terminate under fair random draws, the maze holding at least
\* two PATH cells; for N = 3 the maze holds the single PATH cell (1,1), the
\* goal loop rejects every draw and ResetRun never returns.
C23_ResetRunTerminatesFromFive ==
    /\ [](genN >= 5 => <>(pc = "loop"))
    /\ [](GenDone /\ genN >= 5 => Cardinality(GenPathCells) >= 2)
    /\ [](genN = 3 => pc # "loop")
    /\ [](GenDone /\ genN = 3 => GenPathCells = {<<1, 1>>})

\* ResetRun has returned on a maze of side 5 with all seven PATH cells
\* carved, the start and the goal in opposite rooms
C23_Witness ==
    /\ pc = "loop"
    /\ genN = 5
    /\ Cardinality(GenPathCells) = 7
    /\ run.goalX = 1 /\ run.goalY = 3
    /\ run.startX = 3 /\ run.startY = 1

----------------------------------------------------------------------------
(* maze(): ResetRun as one call, and the loop that ticks the search *)

\* side of the grid the loop of maze() is followed on
RunN == 5

\* GenerateMaze(maze, x, y, n) as the function it is of the maze, dirs and
\* the values rand() yields: g.draws holds one entry per ShuffleDirs to come
RECURSIVE GenerateMaze(_, _, _, _)
RECURSIVE GenerateMazeLoop(_, _, _, _, _)
GenerateMaze(g, x, y, n) ==
    GenerateMazeLoop([maze |-> [g.maze EXCEPT ![y][x] = PATH],
                      dirs |-> ShuffleDirs(g.dirs, Head(g.draws)),
                      draws |-> Tail(g.draws)], x, y, n, 0)

\* the for loop of GenerateMaze from iteration i on
GenerateMazeLoop(g, x, y, n, i) ==
    IF i >= 4 THEN g
    ELSE LET t == DirTarget(g.dirs, x, y, i)
             b == DirBetween(g.dirs, x, y, i)
         IN IF GenInside(t, n) /\ GenUnvisited(g.maze, t)
            THEN GenerateMazeLoop(
                    GenerateMaze([g EXCEPT !.maze[b.y][b.x] = PATH], t.x, t.y, n),
                    x, y, n, i + 1)
            ELSE GenerateMazeLoop(g, x, y, n, i + 1)

\* the values of rand() one GenerateMaze(maze, 1, 1, n) may consume, one
\* ShuffleDirs per room: MaxDraws sequences, the d-th made of the outcomes
\* numbered 4 * d + 1, 4 * d + 2, ...
DrawSeqs(n) ==
    {[i \in 1..(((n - 1) \div 2) * ((n - 1) \div 2)) |->
        DrawOf((4 * d + i) % 256)] : d \in 0..(MaxDraws - 1)}

\* every order dirs can be in
AllDirs == {[i \in 0..3 |-> InitialDirs[p[i]]] : p \in Permutations4}

\* lines 70-76 of ResetRun: the maze and dirs it can leave, by the dirs it
\* finds
Regenerated ==
    [d \in AllDirs |->
        {[maze |-> g.maze, dirs |-> g.dirs] :
            g \in {GenerateMaze([maze |-> AllWall(RunN), dirs |-> d, draws |-> q],
                                GenerateMazeStart.x, GenerateMazeStart.y, RunN) :
                   q \in DrawSeqs(RunN)}}]

\* step(&state) of the header maze.h includes
step(a, s) ==
    CASE a = "BFS" -> bfs_step(s)
      [] a = "DFS" -> dfs_step(s)
      [] a = "Greedy" -> greedy_step(s)
      [] a = "A*" -> astar_step(s)
      [] a = "Dijkstra" -> dijkstra_step(s)
      [] a = "DijkstraScan" -> dijkstra_scan_step(s)

\* maze() before its first ResetRun
InitRun ==
    /\ algo \in SearchAlgos
    /\ maze = AllWall(RunN)
    /\ dirs = InitialDirs
    /\ state = SearchStateZero
    /\ stepRet = FALSE
    /\ found = FALSE
    /\ pc = "reset"
    /\ run = RunZero
    /\ stepCalls = 0
    /\ resetFrom = "start"
    /\ SortIdle
    /\ GenIdle
    /\ HeapIdle

\* *found = false; *pathLen = 0; *stepCount = 0 at the end of ResetRun
ResetStatsMut(r) == [r EXCEPT !.pathLen = 0]

ResetStats(r) == [r EXCEPT !.pathLen = 0, !.stepCount = 0]

\* ResetRun from its call to its return: the call of line 129, or the one
\* IsKeyPressed(KEY_R) triggers in the loop. sx, sy and gx, gy are the draws
\* that leave the two do-while loops
ResetRun ==
    /\ pc \in {"reset", "loop"}
    /\ \E g \in Regenerated[dirs] :
          /\ maze' = g.maze
          /\ dirs' = g.dirs
          /\ \E sx, sy, gx, gy \in 0..(RunN - 1) :
                /\ g.maze[sy][sx] # WALL
                /\ ~((gx = sx /\ gy = sy) \/ g.maze[gy][gx] = WALL)
                /\ state' = search_init(RunN, sx, sy, gx, gy)
                /\ run' = ResetStats([run EXCEPT !.startX = sx, !.startY = sy,
                                                 !.goalX = gx, !.goalY = gy])
    /\ found' = FALSE
    /\ stepRet' = FALSE
    /\ stepCalls' = 0
    /\ resetFrom' = IF pc = "reset" THEN "start"
                    ELSE IF found THEN "found" ELSE "searching"
    /\ pc' = "loop"
    /\ UNCHANGED <<algo, sortVars, genVars, heapVars>>

\* if (!found && tickTime >= TICK)
TickDueMut == TRUE

TickDue == ~found

\* a frame of the loop whose tickTime has reached TICK: one step call
Tick ==
    /\ pc = "loop"
    /\ TickDue
    /\ LET r == step(algo, state)
       IN /\ state' = r.st
          /\ stepRet' = r.ret
          /\ found' = (found \/ r.ret)
          /\ run' = [run EXCEPT !.pathLen = IF r.ret THEN Len(r.st.path) ELSE @,
                                !.stepCount = @ + 1]
    /\ stepCalls' = stepCalls + 1
    /\ UNCHANGED <<algo, maze, dirs, pc, resetFrom, sortVars, genVars, heapVars>>

NextRun == ResetRun \/ Tick

\* maze() with any one of the search headers included
RunSpec == InitRun /\ [][NextRun]_vars

----------------------------------------------------------------------------
(* What ResetRun leaves *)

\* the search state and the statistics of maze() are those of a run that
\* has not made a step: only the start is visited, with dist 0, every
\* parent is -1, every other dist is INF, no cell is processed, the heap is
\* empty, the queue holds the start alone with head 0, path is empty, and
\* found, pathLen and stepCount are false, 0 and 0
FreshRun ==
    LET start == run.startY * RunN + run.startX
    IN /\ state.N = RunN /\ state.max = RunN * RunN
       /\ state.startX = run.startX /\ state.startY = run.startY
       /\ state.goalX = run.goalX /\ state.goalY = run.goalY
       /\ \A i \in 0..(RunN * RunN - 1) :
             /\ state.visited[i] = (IF i = start THEN 1 ELSE 0)
             /\ state.parent[i] = -1
             /\ state.dist[i] = (IF i = start THEN 0 ELSE INF)
             /\ state.processed[i] = 0
             /\ state.heap_pos[i] = -1
       /\ state.heap_len = 0
       /\ state.queue = <<Cell(run.startX, run.startY)>>
       /\ state.head = 0
       /\ state.path = <<>>
       /\ found = FALSE
       /\ run.pathLen = 0
       /\ run.stepCount = 0

\* C26: ResetRun invoked in any state of the loop of maze(), before, during
\* or after a search, leaves the SearchState as search_init produces it for
\* the new maze and start, with found, pathLen and stepCount reset.
C26_ResetRunReinitialises ==
    [][(pc = "loop" /\ stepCalls' = 0) => FreshRun']_vars

\* ResetRun has returned after being called on a heap Dijkstra search that
\* had found its goal
C26_Witness ==
    /\ algo = "Dijkstra"
    /\ pc = "loop"
    /\ resetFrom = "found"
    /\ stepCalls = 0
    /\ state.heap_len = 0
    /\ state.path = <<>>

----------------------------------------------------------------------------
(* The loop of maze() *)

\* C28: in the loop of maze() step is called at most once per iteration and
\* only while found is false: once a step call has returned true, state,
\* pathLen and stepCount stay as they are until ResetRun is called, and
\* stepCount always equals the number of step calls made since the last
\* reset.
C28_StepOnlyWhileNotFound ==
    /\ [](pc = "loop" => run.stepCount = stepCalls)
    /\ [](found => stepRet = TRUE)
    /\ [][pc = "loop" => stepCalls' \in {stepCalls, stepCalls + 1, 0}]_vars
    /\ [][(found /\ stepCalls' # 0) =>
             /\ state' = state
             /\ run' = run
             /\ stepCalls' = stepCalls
             /\ found']_vars

\* a BFS that was started by a reset has found its goal on its fifth step
\* call
C28_Witness ==
    /\ algo = "BFS"
    /\ found
    /\ resetFrom = "searching"
    /\ stepCalls = 5
    /\ run.stepCount = 5
    /\ run.pathLen = Len(state.path)
    /\ run.pathLen >= 3

----------------------------------------------------------------------------
(* sort(): reruns on the same SortState *)

\* longest array a rerun is followed on
RerunLen == 3

\* sort_step(&state) of the header sort.h includes
sort_step(a, s, t) ==
    CASE a = "bubble" -> bubble_sort_step(s, t)
      [] a = "selection" -> selection_sort_step(s, t)
      [] a = "merge" -> merge_sort_step(s, t)
      [] a = "quick" -> quick_sort_step(s, t)
      [] a = "heap" -> heap_sort_step(s, t)

\* the arrays rand() fills values with: the orderings of n distinct values
RerunInputs(n) ==
    {v \in [0..(n - 1) -> 1..n] : \A a, b \in 0..(n - 1) : a # b => v[a] # v[b]}

\* sort() up to its loop, with the twin run on a SortState built alike; g is
\* what malloc leaves in fresh buffers
InitRerun ==
    /\ sortAlgo \in SortAlgos
    /\ \E n \in 0..RerunLen, g \in Garbage :
          /\ sortAlgo = "quick" => n >= 1
          /\ \E vals \in RerunInputs(n) :
                /\ input = vals
                /\ sortState = SortStart(sortAlgo, n, vals, g)
                /\ twin = [st |-> SortStart(sortAlgo, n, vals, g), ret |-> FALSE,
                           g |-> g]
    /\ sortRet = FALSE
    /\ calls = 0
    /\ SearchIdle
    /\ GenIdle
    /\ HeapIdle
    /\ RunIdle

\* if (!state.finished && tickTime >= SORT_TICK) sort_step(&state), the twin
\* stepped with it
RerunTick ==
    /\ ~sortState.finished
    /\ \E t \in TimerReadings(sortState) :
          /\ sortState' = sort_step(sortAlgo, sortState, t).st
          /\ sortRet' = sort_step(sortAlgo, sortState, t).ret
          /\ twin' = [st |-> sort_step(sortAlgo, twin.st, t).st,
                      ret |-> sort_step(sortAlgo, twin.st, t).ret,
                      g |-> twin.g]
    /\ calls' = calls + 1
    /\ UNCHANGED <<sortAlgo, input, searchVars, genVars, heapVars, runVars>>

\* if (IsKeyPressed(KEY_R)): sort_state_reset_common and sort_init on the
\* state as it is, the buffers kept; the twin starts from SortState {0} with
\* the same values
RerunReset ==
    /\ \E vals \in RerunInputs(sortState.n) :
          /\ input' = vals
          /\ sortState' = sort_init(sortAlgo,
                              sort_state_reset_common(sortState, sortState.n, vals))
          /\ twin' = [st |-> SortStart(sortAlgo, sortState.n, vals, twin.g),
                      ret |-> FALSE, g |-> twin.g]
    /\ sortRet' = FALSE
    /\ calls' = 0
    /\ UNCHANGED <<sortAlgo, searchVars, genVars, heapVars, runVars>>

NextRerun == RerunTick \/ RerunReset

\* sort.h with any one of the five headers included, KEY_R pressed at will
RerunSpec == InitRerun /\ [][NextRerun]_vars

\* C27: for every sort variant, sort_state_reset_common followed by
\* sort_init, invoked in any reachable state of a sort run, starts a run
\* that yields the same sort_step results and the same values after every
\* call as a run from a freshly constructed state holding the same values.
C27_RerunMatchesFreshRun ==
    /\ sortRet = twin.ret
    /\ sortState.values = twin.st.values
    /\ sortState.finished = twin.st.finished
    /\ sortState.comparisons = twin.st.comparisons
    /\ sortState.swaps = twin.st.swaps

\* a merge sort restarted by a reset is two calls into its run, its aux
\* buffer still holding values of the previous run where the fresh run's
\* holds what malloc left
C27_Witness ==
    /\ sortAlgo = "merge"
    /\ sortState.n = 3
    /\ calls >= 2
    /\ ~sortState.finished
    /\ sortState.aux # twin.st.aux

\* ---------------------------------------------------------------------
\* Command dispatch: main of src/main.c and the table-driven main of
\* src/unnamed/part_001. run holds the process: which main it is, the
\* arguments after the program name, val, the commands that have run, the
\* qol_error messages and the exit status.

MaxArgs == 2

\* the three names the README documents
Commands == {"maze", "sort", "usage"}

\* "other" stands for any word that is none of the three
Words == Commands \cup {"other"}

Mains == {"main.c", "part_001"}

ArgLists == UNION {[1..k -> Words] : k \in 0..MaxArgs}

InitMain ==
    /\ pc = "main"
    /\ \E m \in Mains, a \in ArgLists :
          run = [impl |-> m, argv |-> a, val |-> "", ran |-> <<>>,
                 log |-> <<>>, status |-> "running"]
    /\ stepCalls = 0
    /\ resetFrom = "none"
    /\ SortIdle
    /\ SearchIdle
    /\ GenIdle
    /\ HeapIdle

\* qol_error: the message is logged and qol_log calls exit(EXIT_FAILURE)
qol_error(r, msg) ==
    [r EXCEPT !.log = Append(@, msg), !.status = "EXIT_FAILURE"]

\* a command function runs and returns (maze and sort when their window is
\* closed)
Call(r, fn) == [r EXCEPT !.ran = Append(@, fn)]

\* main.c 16-19: program = qol_shift; if (argc < 1) qol_error(Usage);
\* val = qol_shift
MainShift ==
    /\ pc = "main"
    /\ run.impl = "main.c"
    /\ IF Len(run.argv) < 1
         THEN /\ run' = qol_error(run, "Usage")
              /\ pc' = "exit"
         ELSE /\ run' = [run EXCEPT !.val = run.argv[1]]
              /\ pc' = "maze?"
    /\ UNCHANGED <<sortVars, searchVars, genVars, heapVars, stepCalls,
                   resetFrom>>

\* main.c 21: if (strcmp(val, "maze") == 0) maze();
MainMaze ==
    /\ pc = "maze?"
    /\ run' = IF run.val = "maze" THEN Call(run, "maze") ELSE run
    /\ pc' = "sort?"
    /\ UNCHANGED <<sortVars, searchVars, genVars, heapVars, stepCalls,
                   resetFrom>>

\* main.c 22: if (strcmp(val, "sort") == 0) sort();
MainSort ==
    /\ pc = "sort?"
    /\ run' = IF run.val = "sort" THEN Call(run, "sort") ELSE run
    /\ pc' = "usage?"
    /\ UNCHANGED <<sortVars, searchVars, genVars, heapVars, stepCalls,
                   resetFrom>>

\* main.c 23-27: if (strcmp(val, "usage") == 0) usage();
\* else qol_error(Unknown type); return 0. The else belongs to this if alone
MainUsage ==
    /\ pc = "usage?"
    /\ run' = IF run.val = "usage"
                THEN [Call(run, "usage") EXCEPT !.status = "0"]
                ELSE qol_error(run, "Unknown type")
    /\ pc' = "exit"
    /\ UNCHANGED <<sortVars, searchVars, genVars, heapVars, stepCalls,
                   resetFrom>>

\* part_001 28-35: the function registered under the name, "" for NULL
lookup_command(name) == IF name \in Commands THEN name ELSE ""

\* part_001 38-42: if (argc < 2) usage(); then the two qol_shift. Without an
\* argument the second shift finds argc == 0 and its QOL_ASSERT aborts
TableShift ==
    /\ pc = "main"
    /\ run.impl = "part_001"
    /\ IF Len(run.argv) < 1
         THEN /\ run' = [Call(run, "usage") EXCEPT !.status = "abort"]
              /\ pc' = "exit"
         ELSE /\ run' = [run EXCEPT !.val = run.argv[1]]
              /\ pc' = "lookup"
    /\ UNCHANGED <<sortVars, searchVars, genVars, heapVars, stepCalls,
                   resetFrom>>

\* part_001 43-53: fn = lookup_command(val); if (!fn) qol_error(Unknown
\* type), else fn(); return EXIT_SUCCESS
TableCall ==
    /\ pc = "lookup"
    /\ LET fn == lookup_command(run.val)
       IN  run' = IF fn = ""
                    THEN qol_error(run, "Unknown type")
                    ELSE [Call(run, fn) EXCEPT !.status = "0"]
    /\ pc' = "exit"
    /\ UNCHANGED <<sortVars, searchVars, genVars, heapVars, stepCalls,
                   resetFrom>>

NextMain ==
    MainShift \/ MainMaze \/ MainSort \/ MainUsage \/ TableShift \/ TableCall

\* one run of the program, from either main, on any short argument list
MainSpec == InitMain /\ [][NextMain]_vars

\* the process has ended (MainSpec only)
Exited == pc = "exit"

InLog(msg) == \E i \in 1..Len(run.log) : run.log[i] = msg

\* C29: the program invoked with the argument maze, sort or usage runs
\* exactly the matching command and finishes without reporting an unknown
\* command; "Unknown type" with a failure exit is produced only for an
\* argument that is none of the three.
C29_DispatchMatchesArgument ==
    (Exited /\ Len(run.argv) >= 1) =>
        /\ run.argv[1] \in Commands =>
              /\ run.ran = <<run.argv[1]>>
              /\ ~InLog("Unknown type")
              /\ run.status = "0"
        /\ InLog("Unknown type") =>
              /\ run.argv[1] \notin Commands
              /\ run.status = "EXIT_FAILURE"

\* the same statement for the table-driven main alone, which meets it
C29_TableDispatchMatchesArgument ==
    (Exited /\ run.impl = "part_001") => C29_DispatchMatchesArgument

\* main.c run with the argument maze: maze() has run and returned, and the
\* process has ended reporting "Unknown type" with a failure status
C29_MazeThenUnknown ==
    /\ Exited
    /\ run.impl = "main.c"
    /\ run.argv = <<"maze">>
    /\ run.ran = <<"maze">>
    /\ run.log = <<"Unknown type">>
    /\ run.status = "EXIT_FAILURE"

\* ---------------------------------------------------------------------
\* ShuffleDirs one loop iteration at a time. run holds the call: the dirs
\* it found, the loop counter i and the values of rand() % 4 drawn so far.

InitShuffle ==
    /\ pc = "shuffle"
    /\ dirs = InitialDirs
    /\ run = [from |-> InitialDirs, i |-> 0, rs |-> <<>>]
    /\ algo = "none"
    /\ maze = <<>>
    /\ state = <<>>
    /\ stepRet = FALSE
    /\ found = FALSE
    /\ stepCalls = 0
    /\ resetFrom = "none"
    /\ SortIdle
    /\ GenIdle
    /\ HeapIdle

\* lines 27-35: int r = rand() % 4; dirs[i] and dirs[r] are exchanged
ShuffleIter ==
    /\ pc = "shuffle"
    /\ run.i < 4
    /\ \E r \in 0..3 :
          /\ dirs' = ShuffleSwap(dirs, run.i, r)
          /\ run' = [run EXCEPT !.i = @ + 1, !.rs = Append(@, r)]
    /\ UNCHANGED <<pc, algo, maze, state, stepRet, found, stepCalls, resetFrom,
                   sortVars, genVars, heapVars>>

\* the loop has ended; the next GenerateMaze calls ShuffleDirs again, on the
\* dirs this call left
ShuffleCall ==
    /\ pc = "shuffle"
    /\ run.i = 4
    /\ run' = [from |-> dirs, i |-> 0, rs |-> <<>>]
    /\ UNCHANGED <<pc, dirs, algo, maze, state, stepRet, found, stepCalls,
                   resetFrom, sortVars, genVars, heapVars>>

NextShuffle == ShuffleIter \/ ShuffleCall

\* successive calls of ShuffleDirs on the global dirs
ShuffleSpec == InitShuffle /\ [][NextShuffle]_vars

\* for dirs f before the call, the number of the 256 sequences of four
\* draws that leave each ordering
ShuffleCounts ==
    [f \in AllDirs |-> [o \in AllDirs |->
        Cardinality({d \in 0..255 : ShuffleDirs(f, DrawOf(d)) = o})]]

\* C30: ShuffleDirs produces a uniform random permutation of the four
\* directions: counted over all 4^4 equally likely sequences of its four
\* random draws, each of the 24 orderings of the direction array results
\* from the same number of draw sequences. Stated at the return of a call:
\* the ordering it left is as frequent as every other ordering.
C30_ShuffleUniform ==
    (pc = "shuffle" /\ run.i = 4) =>
        \A o \in AllDirs :
            ShuffleCounts[run.from][o] = ShuffleCounts[run.from][dirs]

\* what the loop does instead: the call's result is the composition of its
\* four exchanges, every ordering can result, and the 256 draw sequences
\* spread over the 24 orderings unevenly, between 8 and 15 each
C30_ShuffleSkewed ==
    (pc = "shuffle" /\ run.i = 4) =>
        /\ dirs = ShuffleDirs(run.from, [i \in 0..3 |-> run.rs[i + 1]])
        /\ dirs \in AllDirs
        /\ ShuffleCounts[run.from][dirs] \in 8..15
        /\ \E o \in AllDirs : ShuffleCounts[run.from][o] = 8
        /\ \E o \in AllDirs : ShuffleCounts[run.from][o] = 15

\* a call on the initial order that drew 0, 1, 2, 3 exchanged nothing and
\* left the initial order, one of the ten sequences that do
C30_IdentityDraws ==
    /\ pc = "shuffle"
    /\ run.from = InitialDirs
    /\ run.rs = <<0, 1, 2, 3>>
    /\ dirs = InitialDirs
    /\ ShuffleCounts[InitialDirs][InitialDirs] = 10

\* ---------------------------------------------------------------------
\* GenerateMaze with, for every active call, the directions its loop has
\* read so far: run[k] lists the dirs[i] that frame k of genStack examined
\* in its iterations 0, 1, ...

InitExamine ==
    /\ genN \in ResetSizes
    /\ genStack = <<>>
    /\ maze = AllWall(genN)
    /\ dirs = InitialDirs
    /\ algo = "none"
    /\ state = <<>>
    /\ stepRet = FALSE
    /\ found = FALSE
    /\ pc = "generate"
    /\ run = <<>>
    /\ stepCalls = 0
    /\ resetFrom = "none"
    /\ SortIdle
    /\ HeapIdle

\* the top frame reads dirs[i] for its iteration i (lines 43-44)
ExamineTop(r, d) == [r EXCEPT ![Len(r)] = Append(@, d[GenTop.i])]

ExamineStart ==
    /\ GenStartCore
    /\ run' = <<<<>>>>
    /\ UNCHANGED <<pc, stepCalls, resetFrom>>

ExamineCarve ==
    /\ GenCarveCore
    /\ run' = Append(ExamineTop(run, dirs), <<>>)
    /\ UNCHANGED <<pc, stepCalls, resetFrom>>

ExamineSkip ==
    /\ GenSkipCore
    /\ run' = ExamineTop(run, dirs)
    /\ UNCHANGED <<pc, stepCalls, resetFrom>>

ExamineReturn ==
    /\ GenReturnCore
    /\ run' = SubSeq(run, 1, Len(run) - 1)
    /\ UNCHANGED <<pc, stepCalls, resetFrom>>

NextExamine == ExamineStart \/ ExamineCarve \/ ExamineSkip \/ ExamineReturn

ExamineSpec == InitExamine /\ [][NextExamine]_vars

\* no direction occurs twice in the sequence
NoRepeat(q) == \A a, b \in 1..Len(q) : a # b => q[a] # q[b]

\* C31: within one GenerateMaze invocation for a cell, the four loop
\* iterations examine four distinct cardinal directions, so each of the
\* cell's neighbours two cells away is considered exactly once, also when a
\* recursive call happens between two iterations.
C31_IterationsExamineDistinctDirs ==
    \A k \in 1..Len(run) :
        /\ NoRepeat(run[k])
        /\ Len(run[k]) = 4 => {run[k][a] : a \in 1..4} = {dirs[i] : i \in 0..3}

\* what holds instead: a call's iterations read distinct directions as long
\* as no call was made between them, that is in the call on top of the stack
\* that has not yet carved
C31_DistinctWithoutNestedCall ==
    \A k \in 1..Len(run) :
        /\ Len(run[k]) <= 4
        /\ (k = Len(run) /\ \A a \in 1..Len(run[k]) :
                ~GenInside([x |-> genStack[k].x + 2 * run[k][a][0],
                            y |-> genStack[k].y + 2 * run[k][a][1]], genN))
              => NoRepeat(run[k])

\* the first call has examined the same direction in two of its iterations,
\* a nested call having reshuffled dirs in between
C31_SameDirectionTwice ==
    /\ Len(run) = 1
    /\ Len(run[1]) = 4
    /\ ~NoRepeat(run[1])

\* ---------------------------------------------------------------------
\* (* build_path and the parent chain *)

\* reference: the linear indices met following parent from idx, up to the
\* start, to a cell without parent, or until fuel links were followed
RECURSIVE ParentChain(_, _, _)
ParentChain(s, idx, fuel) ==
    IF idx = StartIdx(s) \/ fuel = 0 \/ s.parent[idx] < 0 THEN <<idx>>
    ELSE <<idx>> \o ParentChain(s, s.parent[idx], fuel - 1)

\* the chain from idx ends at the start: no parent == -1 and no cycle is met
ReachesStart(s, idx) ==
    LET q == ParentChain(s, idx, s.max)
    IN /\ q[Len(q)] = StartIdx(s)
       /\ \A a, b \in 1..Len(q) : a # b => q[a] # q[b]

\* C32: whenever build_path is called from a step of any variant (the goal
\* has just been taken from the frontier), following parent pointers from
\* the goal reaches the start cell without ever meeting parent == -1 and
\* without visiting a cell twice, so the defensive break is never taken and
\* the loop terminates. Every cell of the frontier has such a chain, and the
\* path built is that chain reversed.
C32_ParentChainReachesStart ==
    /\ \A i \in Frontier(algo, state) : ReachesStart(state, i)
    /\ stepRet = TRUE =>
          LET q == state.path
          IN /\ ReachesStart(state, GoalIdx(state))
             /\ Len(q) = Len(ParentChain(state, GoalIdx(state), state.max))
             /\ \A k \in 1..(Len(q) - 1) :
                   state.parent[q[k + 1].y * state.N + q[k + 1].x]
                      = q[k].y * state.N + q[k].x

\* DFS has returned true with a path of five cells, the goal's chain of
\* four parent links leading to the start
C32_Witness ==
    /\ algo = "DFS"
    /\ stepRet = TRUE
    /\ Len(state.path) = 5
    /\ Len(ParentChain(state, GoalIdx(state), state.max)) = 5
    /\ state.parent[StartIdx(state)] = -1

\* ---------------------------------------------------------------------
\* (* Selection sort: one comparison per step, one swap per pass *)

\* the running minimum after values[j] was compared with it
SelectionMinAfter(s) ==
    IF s.values[s.j] < s.values[s.minIdx] THEN s.j ELSE s.minIdx

\* a sort_step call of selection sort that did not set finished compared
\* values[j] with the running minimum, once; values changes only in such a
\* call, only when j reaches n, and then by the swap of values[i] with
\* values[minIdx], counted in swaps
SelectionStepFrame ==
    sortAlgo = "selection" =>
        /\ (calls' = calls + 1 /\ ~sortState'.finished) =>
              /\ sortState'.comparisons = sortState.comparisons + 1
              /\ sortState'.highlightB = sortState.j
              /\ sortState.j + 1 < sortState.n =>
                    /\ sortState'.minIdx = SelectionMinAfter(sortState)
                    /\ sortState'.values = sortState.values
              /\ sortState'.swaps = sortState.swaps
                    <=> sortState'.values = sortState.values
        /\ sortState'.values # sortState.values =>
              /\ ~sortState'.finished
              /\ sortState.j + 1 >= sortState.n
              /\ SelectionMinAfter(sortState) # sortState.i
              /\ sortState'.values =
                    Swap(sortState.values, sortState.i, SelectionMinAfter(sortState))
              /\ sortState'.swaps = sortState.swaps + 1

\* C33 as claimed: in selection sort every non-finishing sort_step performs
\* exactly one comparison against the running minimum, and values is
\* modified only on a step where j reaches n (the end of an outer pass), by
\* at most one swap of values[i] with values[minIdx]; hence swaps <= n-1 at
\* the end.
C33_SelectionOneSwapPerPass ==
    /\ [][SelectionStepFrame]_vars
    /\ []((sortAlgo = "selection" /\ sortState.finished)
            => sortState.swaps <= sortState.n - 1)

\* C33, amended: the same, with the bound for a non-empty array; on the empty
\* array nothing is swapped (and n - 1 is -1). As long as the run lasts,
\* swaps is at most the number of passes completed.
C33_SelectionOneSwapPerPassNonEmpty ==
    /\ [][SelectionStepFrame]_vars
    /\ []((sortAlgo = "selection" /\ sortState.n >= 1)
            => /\ sortState.swaps <= sortState.i
               /\ sortState.i <= sortState.n - 1)
    /\ []((sortAlgo = "selection" /\ sortState.n = 0) => sortState.swaps = 0)

\* selection sort has finished an array of three with a swap at the end of
\* each of its two passes
C33_Witness ==
    /\ sortAlgo = "selection"
    /\ sortState.finished
    /\ sortState.n = 3
    /\ sortState.swaps = 2
    /\ sortState.comparisons = 3

\* ---------------------------------------------------------------------
\* (* Merge sort: one element per step *)

\* reference: the run [left, right) a working call of merge sort is in, and
\* the index k it writes
MergeRun(s) ==
    LET wrap == s.mergeLeft >= s.n
        width == IF wrap THEN s.mergeWidth * 2 ELSE s.mergeWidth
        left == IF wrap THEN 0 ELSE s.mergeLeft
        fresh == ~s.mergeCopying /\ s.mergeK = 0
        mid == IF left + width > s.n THEN s.n ELSE left + width
    IN [left |-> left,
        mid |-> mid,
        right |-> IF left + 2 * width > s.n THEN s.n ELSE left + 2 * width,
        k |-> IF fresh THEN left ELSE s.mergeK,
        i |-> IF fresh THEN left ELSE s.i,
        j |-> IF fresh THEN mid ELSE s.j]

\* C34: in merge sort every non-finishing sort_step does exactly one unit of
\* work: while mergeCopying is false it writes exactly one element into aux
\* and leaves values unchanged; while mergeCopying is true it writes exactly
\* one element values[mergeK] := aux[mergeK]; all indices written lie in
\* [left, right) of the current run and below n. The element written into
\* aux is values[i] or values[j], and the write index then moves on by one
\* or the phase changes.
C34_MergeOneElementPerStep ==
    [][(sortAlgo = "merge" /\ calls' = calls + 1 /\ ~sortState'.finished) =>
          LET s == sortState
              r == MergeRun(s)
          IN /\ r.left <= r.k /\ r.k < r.right /\ r.right <= s.n
             /\ IF ~s.mergeCopying
                  THEN /\ sortState'.values = s.values
                       /\ \/ /\ r.i < r.mid
                             /\ sortState'.i = r.i + 1
                             /\ sortState'.j = r.j
                             /\ sortState'.aux = [s.aux EXCEPT ![r.k] = s.values[r.i]]
                          \/ /\ r.j < r.right
                             /\ sortState'.j = r.j + 1
                             /\ sortState'.i = r.i
                             /\ sortState'.aux = [s.aux EXCEPT ![r.k] = s.values[r.j]]
                       /\ \/ ~sortState'.mergeCopying /\ sortState'.mergeK = r.k + 1
                          \/ /\ sortState'.mergeCopying
                             /\ sortState'.mergeK = r.left
                             /\ r.k + 1 = r.right
                  ELSE /\ sortState'.aux = s.aux
                       /\ sortState'.values = [s.values EXCEPT ![r.k] = s.aux[r.k]]
                       /\ \/ sortState'.mergeCopying /\ sortState'.mergeK = r.k + 1
                          \/ /\ ~sortState'.mergeCopying
                             /\ sortState'.mergeK = 0
                             /\ sortState'.mergeLeft = r.right
                             /\ r.k + 1 = r.right]_vars

\* merge sort on three elements is copying a merged run back: the first copy
\* has changed values, the second is still to come
C34_Witness ==
    /\ sortAlgo = "merge"
    /\ sortState.n = 3
    /\ sortState.mergeCopying
    /\ sortState.mergeK = 1
    /\ sortState.values # input
    /\ sortState.aux[1] # sortState.values[1]

\* ---------------------------------------------------------------------
\* (* The search of a generated maze comes to its goal *)

\* maze() about to call ResetRun, before the loop or on R, dirs being
\* whatever the earlier generations left
InitRunOnce ==
    /\ algo \in SearchAlgos
    /\ maze = AllWall(RunN)
    /\ dirs \in AllDirs
    /\ state = SearchStateZero
    /\ stepRet = FALSE
    /\ found = FALSE
    /\ pc = "reset"
    /\ run = RunZero
    /\ stepCalls = 0
    /\ resetFrom = "start"
    /\ SortIdle
    /\ GenIdle
    /\ HeapIdle

\* that call of ResetRun
FirstResetRun == pc = "reset" /\ ResetRun

NextRunOnce == FirstResetRun \/ Tick

\* ResetRun returns into the loop
ResetReturns == pc = "reset" /\ pc' = "loop"

\* a frame of the loop whose tick is due makes its step call; under
\* NextRunOnce these are the Tick steps
TickFrame == pc = "loop" /\ TickDue /\ stepCalls' = stepCalls + 1

\* one run of the search from ResetRun on, without R: ResetRun returns and
\* frames whose tick is due keep coming
RunOnceSpec ==
    /\ InitRunOnce /\ [][NextRunOnce]_vars
    /\ WF_pc(ResetReturns) /\ WF_stepCalls(TickFrame)

\* the PATH cells of the maze of maze()
RunPathCells ==
    {c \in (0..(RunN - 1)) \X (0..(RunN - 1)) :
        pc = "loop" /\ maze[c[2]][c[1]] = PATH}

\* C35: on any maze produced by GenerateMaze with start and goal chosen as
\* distinct PATH cells, for every search variant repeated step calls
\* eventually return true, after at most as many calls as there are PATH
\* cells in the maze.
C35_StepsReachGoalWithinPathCells ==
    /\ [](pc = "loop" => stepCalls <= Cardinality(RunPathCells))
    /\ []((pc = "loop" /\ ~found) => stepCalls < Cardinality(RunPathCells))
    /\ <>found

\* DFS has returned true on its call number seven on a maze of seven PATH
\* cells: the goal was the last cell it took from its stack
C35_Witness ==
    /\ pc = "loop"
    /\ algo = "DFS"
    /\ found
    /\ Cardinality(RunPathCells) = 7
    /\ stepCalls = 7

\* ---------------------------------------------------------------------
\* (* The frontier of BFS and DFS *)

CellIdx(s, c) == c.y * s.N + c.x

\* the positions of queue' that hold the cells a step of BFS or DFS pushed:
\* BFS appends to the whole queue, DFS to the stack less the cell it popped
PushedAt ==
    LET base == IF algo = "DFS"
                THEN (IF Len(state.queue) = 0 THEN 1 ELSE Len(state.queue))
                ELSE Len(state.queue) + 1
    IN {k \in 1..Len(state'.queue) : k >= base}

\* a step pushes only cells that were not visited, marks them visited,
\* pushes none twice and leaves the entries below them and the visited
\* marks already set as they are
PushesUnvisitedOnly ==
    algo \in {"BFS", "DFS"} =>
        /\ \A k \in PushedAt :
              /\ state.visited[CellIdx(state, state'.queue[k])] = 0
              /\ state'.visited[CellIdx(state, state'.queue[k])] = 1
        /\ \A k, l \in PushedAt :
              k # l => state'.queue[k] # state'.queue[l]
        /\ \A k \in 1..Len(state'.queue) :
              k \notin PushedAt => state'.queue[k] = state.queue[k]
        /\ \A i \in 0..(state.max - 1) :
              state.visited[i] # 0 => state'.visited[i] # 0

\* C36: in BFS and DFS every cell is pushed onto the frontier at most once
\* over a whole run (cells are marked visited when enqueued), every frontier
\* entry is a visited PATH cell, and for BFS
\* 0 <= head <= queue.len <= number of PATH cells holds in every reachable
\* state.
C36_FrontierPushedOnce ==
    /\ [][PushesUnvisitedOnly]_vars
    /\ [](algo \in {"BFS", "DFS"} =>
            /\ \A k \in 1..Len(state.queue) :
                  /\ IsOpen(state, state.queue[k].x, state.queue[k].y)
                  /\ state.visited[CellIdx(state, state.queue[k])] = 1
            /\ \A k, l \in 1..Len(state.queue) :
                  k # l => state.queue[k] # state.queue[l])
    /\ [](algo = "BFS" =>
            /\ 0 <= state.head
            /\ state.head <= Len(state.queue)
            /\ Len(state.queue) <= PathCellCount)

\* BFS has enqueued every PATH cell of a maze of at least six and taken
\* them all out, the goal last: head == queue.len == number of PATH cells
C36_Witness ==
    /\ algo = "BFS"
    /\ PathCellCount >= 6
    /\ Len(state.queue) = PathCellCount
    /\ state.head = Len(state.queue)

\* ---------------------------------------------------------------------
\* (* The heap of heap-based Dijkstra between step calls *)

\* the cells a step marked processed
NewlyProcessed ==
    {i \in 0..(state.max - 1) : state.processed[i] = 0 /\ state'.processed[i] # 0}

\* C37: in heap-based Dijkstra, between step calls no cell index occurs
\* twice in heap[0..heap_len), no processed cell is in the heap, and
\* heap_len <= N*N, so heap_push never writes past the heap array; each step
\* that finds a non-exhausted frontier marks exactly one new cell processed.
C37_HeapHoldsEachOpenCellOnce ==
    /\ [](algo = "Dijkstra" =>
            /\ state.heap_len >= 0
            /\ state.heap_len <= state.N * state.N
            /\ state.heap_len < PathCellCount
            /\ \A a, b \in 0..(state.heap_len - 1) :
                  a # b => state.heap[a] # state.heap[b]
            /\ \A a \in 0..(state.heap_len - 1) :
                  /\ state.processed[state.heap[a]] = 0
                  /\ state.visited[state.heap[a]] # 0
                  /\ state.heap_pos[state.heap[a]] = a)
    /\ [][(algo = "Dijkstra" /\ ~Exhausted(algo, state)) =>
            /\ Cardinality(NewlyProcessed) = 1
            /\ \A i \in 0..(state.max - 1) :
                  state.processed[i] # 0 => state'.processed[i] # 0]_vars

\* heap Dijkstra between two calls: three cells processed, two cells in the
\* heap waiting
C37_Witness ==
    /\ algo = "Dijkstra"
    /\ ~found
    /\ state.heap_len = 2
    /\ Cardinality({i \in 0..(state.max - 1) : state.processed[i] # 0}) = 3

\* ---------------------------------------------------------------------
\* (* Heap-based and array-scan Dijkstra on the same grid *)
\* state is the SearchState of the heap-based stepper, twin that of the
\* array-scan stepper with the result of its last call; each goes on at its
\* own pace.

InitPair ==
    /\ algo = "Dijkstra"
    /\ maze \in Mazes(GridN)
    /\ dirs \in DirOrders
    /\ \E sx, sy, gx, gy \in 0..(GridN - 1) :
          /\ maze[sy][sx] = PATH
          /\ maze[gy][gx] = PATH
          /\ ~(gx = sx /\ gy = sy)
          /\ state = search_init(GridN, sx, sy, gx, gy)
          /\ twin = [st |-> search_init(GridN, sx, sy, gx, gy),
                     ret |-> FALSE, found |-> FALSE]
    /\ stepRet = FALSE
    /\ found = FALSE
    /\ sortAlgo = "none"
    /\ sortState = <<>>
    /\ sortRet = FALSE
    /\ input = <<>>
    /\ calls = 0
    /\ GenIdle
    /\ HeapIdle
    /\ RunIdle

\* if (!found) found = step(&state), with part_003 included
PairHeapStep ==
    /\ ~found
    /\ LET r == dijkstra_step(state)
       IN /\ state' = r.st
          /\ stepRet' = r.ret
          /\ found' = r.ret
    /\ UNCHANGED <<algo, maze, dirs, sortVars, genVars, heapVars, runVars>>

\* the same tick with the array-scan step included
PairScanStep ==
    /\ ~twin.found
    /\ LET r == dijkstra_scan_step(twin.st)
       IN twin' = [st |-> r.st, ret |-> r.ret, found |-> r.ret]
    /\ UNCHANGED <<sortAlgo, sortState, sortRet, input, calls, searchVars,
                   genVars, heapVars, runVars>>

NextPair == PairHeapStep \/ PairScanStep

PairSpec == InitPair /\ [][NextPair]_vars

\* the cells marked processed between s and t have a dist no smaller than
\* every cell processed in s
ProcessedInDistOrder(s, t) ==
    \A j \in 0..(s.max - 1) :
        (s.processed[j] = 0 /\ t.processed[j] # 0)
            => \A i \in 0..(s.max - 1) :
                  s.processed[i] # 0 => t.dist[j] >= s.dist[i]

\* the run of a stepper is over: it has returned true or has nothing left
PairDone ==
    /\ found \/ Exhausted("Dijkstra", state)
    /\ twin.found \/ Exhausted("DijkstraScan", twin.st)

GoalReachable == ShortestLen(state, StartIdx(state), GoalIdx(state)) < INF

\* C38: for every grid and start/goal pair, the heap-based Dijkstra stepper
\* and the array-scan Dijkstra stepper are equivalent up to tie-breaking:
\* both mark cells processed in non-decreasing dist order, both return true
\* after the goal is processed with the same dist[goal] and the same path
\* length, and both return false forever when the goal is unreachable.
C38_HeapAndScanDijkstraAgree ==
    /\ [][/\ ProcessedInDistOrder(state, state')
          /\ ProcessedInDistOrder(twin.st, twin'.st)]_vars
    /\ [](/\ found => state.processed[GoalIdx(state)] # 0
          /\ twin.found => twin.st.processed[GoalIdx(state)] # 0
          /\ stepRet = found
          /\ twin.ret = twin.found)
    /\ []((found /\ twin.found) =>
            /\ state.dist[GoalIdx(state)] = twin.st.dist[GoalIdx(state)]
            /\ Len(state.path) = Len(twin.st.path)
            /\ Len(state.path) = state.dist[GoalIdx(state)] + 1)
    /\ [](PairDone => (found <=> twin.found))
    /\ []((found \/ twin.found) => GoalReachable)

\* both steppers have returned true on a grid with two shortest routes and
\* have built different paths of the same length, four cells or more
C38_Witness ==
    /\ found
    /\ twin.found
    /\ state.path # twin.st.path
    /\ Len(state.path) >= 4
    /\ Len(state.path) = Len(twin.st.path)

\* ---------------------------------------------------------------------
\* (* values stays a permutation of the input *)

\* w is v with two of its elements exchanged
OneSwap(v, w, n) == \E a, b \in 0..(n - 1) : w = [v EXCEPT ![a] = v[b], ![b] = v[a]]

\* C39: for bubble, selection, quick and heap sort, values is a permutation
\* of the initial input after every sort_step call (they modify values only
\* by swapping two elements); for merge sort values is a permutation of the
\* input in every state where mergeCopying is false. Bubble, selection and
\* quick sort exchange at most one pair per call.
C39_ValuesStayPermutation ==
    /\ [](sortAlgo \in {"bubble", "selection", "quick", "heap"}
            => IsPermutation(sortState.values, input))
    /\ []((sortAlgo = "merge" /\ ~sortState.mergeCopying)
            => IsPermutation(sortState.values, input))
    /\ [][(sortAlgo \in {"bubble", "selection", "quick"}) =>
            (\/ sortState'.values = sortState.values
             \/ /\ sortState'.swaps = sortState.swaps + 1
                /\ OneSwap(sortState.values, sortState'.values, sortState.n))]_vars

\* heap sort is in its extraction phase on four elements, three swaps or
\* more made and values no longer in input order
C39_Witness ==
    /\ sortAlgo = "heap"
    /\ sortState.n = 4
    /\ sortState.heapPhase = 1
    /\ ~sortState.finished
    /\ sortState.swaps >= 3
    /\ sortState.values # input

----------------------------------------------------------------------------
(* dirs under ShuffleDirs *)

\* the four unit vectors dirs starts with
UnitVectors == {InitialDirs[i] : i \in 0..3}

\* d holds each of the four unit vectors at exactly one index
IsDirsPermutation(d) ==
    /\ DOMAIN d = 0..3
    /\ {d[i] : i \in 0..3} = UnitVectors
    /\ \A i, j \in 0..3 : i # j => d[i] # d[j]

\* the cell iteration i of a step's neighbour loop reads from (x, y)
Examined(x, y) == [i \in 0..3 |-> <<NeighbourX(x, i), NeighbourY(y, i)>>]

FourNeighbours(x, y) == {<<x, y - 1>>, <<x + 1, y>>, <<x, y + 1>>, <<x - 1, y>>}

\* C40: after any number of ShuffleDirs calls, those of nested GenerateMaze
\* calls and of later resets included, dirs is a permutation of the four
\* unit vectors: one ShuffleDirs keeps every order a permutation whatever
\* rand() returns, dirs is one after every ResetRun, and so the four
\* iterations of a search step's neighbour loop read each of the four
\* neighbours of the expanded cell exactly once.
C40_DirsStayPermutation ==
    /\ IsDirsPermutation(dirs)
    /\ pc = "reset" =>
          \A d \in AllDirs, q \in 0..255 :
             IsDirsPermutation(ShuffleDirs(d, DrawOf(q)))
    /\ \A x, y \in 0..(RunN - 1) :
          /\ {Examined(x, y)[i] : i \in 0..3} = FourNeighbours(x, y)
          /\ \A i, j \in 0..3 : i # j => Examined(x, y)[i] # Examined(x, y)[j]

\* a BFS step made after a second ResetRun, whose nested GenerateMaze calls
\* left dirs in another order than the initial one
C40_Witness ==
    /\ algo = "BFS" /\ pc = "loop" /\ resetFrom = "found"
    /\ stepCalls >= 2 /\ Len(state.queue) >= 3
    /\ dirs # InitialDirs

====
